---- MODULE Spec2Model ----
(***************************************************************************)
(* Matching engine of the recruitment backend: the scoring function of     *)
(* app/services/matching_service.py, the two recompute modes that keep the *)
(* teacher_school_matches table in step with teachers and schools, the     *)
(* endpoints that trigger them and the background wrappers around them.    *)
(*                                                                         *)
(* Conventions.  A Python str is a sequence of one-character strings.  A   *)
(* store row is a record; the set row.nulls holds the names of the columns *)
(* that are NULL (Python None).  A score is an integer number of           *)
(* hundredths (87.00 is 8700), a sub-score is a fraction [num, den].       *)
(***************************************************************************)
EXTENDS Integers, Sequences, FiniteSets, TLC

(***************************************************************************)
(* Python str and list primitives used by the scoring code.                *)
(***************************************************************************)
LowerChar(c) ==
    CASE c = "B" -> "b" [] c = "S" -> "s" [] c = "M" -> "m" [] c = "E" -> "e"
      [] c = "P" -> "p" [] c = "H" -> "h" [] c = "J" -> "j" [] c = "Y" -> "y"
      [] OTHER -> c

Lower(s) == [i \in 1..Len(s) |-> LowerChar(s[i])]

IsSpace(c) == c = " "

RECURSIVE LStrip(_)
LStrip(s) == IF s # <<>> /\ IsSpace(Head(s)) THEN LStrip(Tail(s)) ELSE s

RECURSIVE RStrip(_)
RStrip(s) ==
    IF s # <<>> /\ IsSpace(s[Len(s)]) THEN RStrip(SubSeq(s, 1, Len(s) - 1)) ELSE s

Strip(s) == RStrip(LStrip(s))

\* str.split(sep) for a one-character separator: always at least one part
RECURSIVE SplitAcc(_, _, _)
SplitAcc(s, sep, cur) ==
    IF s = <<>> THEN <<cur>>
    ELSE IF Head(s) = sep THEN <<cur>> \o SplitAcc(Tail(s), sep, <<>>)
    ELSE SplitAcc(Tail(s), sep, Append(cur, Head(s)))

Split(s, sep) == SplitAcc(s, sep, <<>>)

\* str.split() without argument: runs of non-blank characters
RECURSIVE WordsAcc(_, _)
WordsAcc(s, cur) ==
    IF s = <<>> THEN (IF cur = <<>> THEN <<>> ELSE <<cur>>)
    ELSE IF IsSpace(Head(s))
         THEN (IF cur = <<>> THEN <<>> ELSE <<cur>>) \o WordsAcc(Tail(s), <<>>)
         ELSE WordsAcc(Tail(s), Append(cur, Head(s)))

Words(s) == WordsAcc(s, <<>>)

\* a in b for two str
IsSubstr(a, b) ==
    \E i \in 0..(Len(b) - Len(a)) : SubSeq(b, i + 1, i + Len(a)) = a

IsDigit(c) == c \in {"0", "1", "2", "3", "4", "5", "6", "7", "8", "9"}

DigitVal(c) ==
    CASE c = "0" -> 0 [] c = "1" -> 1 [] c = "2" -> 2 [] c = "3" -> 3
      [] c = "4" -> 4 [] c = "5" -> 5 [] c = "6" -> 6 [] c = "7" -> 7
      [] c = "8" -> 8 [] c = "9" -> 9

RECURSIVE DigitsVal(_, _)
DigitsVal(s, acc) ==
    IF s = <<>> THEN acc ELSE DigitsVal(Tail(s), 10 * acc + DigitVal(Head(s)))

AllDigits(s) == s # <<>> /\ \A i \in 1..Len(s) : IsDigit(s[i])

\* int(str): blanks around, an optional sign, then digits only
IntBody(s) == IF s # <<>> /\ Head(s) \in {"+", "-"} THEN Tail(s) ELSE s

IntParses(s) == AllDigits(IntBody(Strip(s)))

IntOf(s) ==
    LET t == Strip(s)
    IN  IF Head(t) = "-" THEN 0 - DigitsVal(IntBody(t), 0) ELSE DigitsVal(IntBody(t), 0)

\* the set of the elements of a list
Range(seq) == {seq[i] : i \in 1..Len(seq)}

RECURSIVE FilterNonEmpty(_)
FilterNonEmpty(seq) ==
    IF seq = <<>> THEN <<>>
    ELSE IF Head(seq) = <<>> THEN FilterNonEmpty(Tail(seq))
    ELSE <<Head(seq)>> \o FilterNonEmpty(Tail(seq))

(***************************************************************************)
(* Normalizer.                                                             *)
(***************************************************************************)
\* a VARCHAR column: comma-separated text, or NULL
parse_comma_separated(row, col) ==
    IF col \in row.nulls THEN <<>>
    ELSE IF row[col] # <<>>
         THEN FilterNonEmpty([i \in 1..Len(Split(row[col], ",")) |->
                                 Strip(Split(row[col], ",")[i])])
         ELSE <<>>

\* re.search(r'\d+', value): the first maximal run of digits
RECURSIVE FirstDigitRun(_, _)
FirstDigitRun(s, cur) ==
    IF s = <<>> THEN cur
    ELSE IF IsDigit(Head(s)) THEN FirstDigitRun(Tail(s), Append(cur, Head(s)))
    ELSE IF cur # <<>> THEN cur
    ELSE FirstDigitRun(Tail(s), cur)

parse_years_experience(row) ==
    IF "years_experience" \in row.nulls THEN 0
    ELSE IF FirstDigitRun(row.years_experience, <<>>) # <<>>
         THEN DigitsVal(FirstDigitRun(row.years_experience, <<>>), 0)
         ELSE 0

(***************************************************************************)
(* Scoring function.  A sub-score is the fraction num/den of a point.      *)
(***************************************************************************)
WEIGHT_LOCATION == 35
WEIGHT_SUBJECT == 25
WEIGHT_AGE_GROUP == 20
WEIGHT_EXPERIENCE == 15
WEIGHT_CHINESE == 5

Pts(n) == [num |-> n, den |-> 1]

\* sub > n points
AtLeast_Strict(sub, n) == sub.num > n * sub.den

\* sub >= n points
AtLeast(sub, n) == sub.num >= n * sub.den

\* The outcome of a call that can raise: [ok |-> FALSE] is the exception
Raised == [ok |-> FALSE]

\* province_null: school.get('province', '') is None, and None.lower() raises
calculate_location_score(teacher_locations, school_city, school_province, province_null) ==
    IF teacher_locations = <<>> THEN [ok |-> TRUE, v |-> Pts(50)]
    ELSE IF \E i \in 1..Len(teacher_locations) :
                Lower(teacher_locations[i]) = Lower(school_city)
         THEN [ok |-> TRUE, v |-> Pts(100)]
    ELSE IF province_null THEN Raised
    ELSE IF \E i \in 1..Len(teacher_locations) :
                \/ IsSubstr(Lower(teacher_locations[i]), Lower(school_province))
                \/ IsSubstr(Lower(school_province), Lower(teacher_locations[i]))
         THEN [ok |-> TRUE, v |-> Pts(70)]
    ELSE [ok |-> TRUE, v |-> Pts(0)]

\* min(score, 100.0)
CapAt100(sub) == IF sub.num > 100 * sub.den THEN Pts(100) ELSE sub

LowerSet(tokens) == {Lower(tokens[i]) : i \in 1..Len(tokens)}

calculate_subject_score(teacher_subjects, school_subjects) ==
    IF teacher_subjects = <<>> \/ school_subjects = <<>> THEN Pts(50)
    ELSE LET teacher_set == LowerSet(teacher_subjects)
             school_set == LowerSet(school_subjects)
             overlap == Cardinality(teacher_set \cap school_set)
         IN  IF overlap = 0 THEN Pts(0)
             ELSE CapAt100([num |-> 100 * overlap, den |-> Cardinality(school_set)])

calculate_age_group_score(teacher_age_groups, school_age_groups) ==
    IF teacher_age_groups = <<>> \/ school_age_groups = <<>> THEN Pts(50)
    ELSE LET teacher_set == LowerSet(teacher_age_groups)
             school_set == LowerSet(school_age_groups)
             overlap == Cardinality(teacher_set \cap school_set)
         IN  IF overlap = 0 THEN Pts(0)
             ELSE CapAt100([num |-> 100 * overlap, den |-> Cardinality(school_set)])

Abs(n) == IF n < 0 THEN 0 - n ELSE n

\* the floor is not applied
Max_First(a, b) == a

Max(a, b) == IF a >= b THEN a ELSE b

NO_UPPER_BOUND == 999

\* a text that cannot be parsed is read as no experience required
parse_experience_range_ZeroRequired(school_required) ==
    LET req == Lower(school_required)
        parts == Split(req, "-")
    IN  IF IsSubstr(<<"5", "+">>, req)
           \/ IsSubstr(<<"5", " ", "o", "r", " ", "m", "o", "r", "e">>, req)
        THEN [ok |-> TRUE, min_years |-> 5, max_years |-> NO_UPPER_BOUND]
        ELSE IF /\ IsSubstr(<<"-">>, req)
                /\ IntParses(parts[1])
                /\ Words(parts[2]) # <<>>
                /\ IntParses(Words(parts[2])[1])
        THEN [ok |-> TRUE, min_years |-> IntOf(parts[1]),
              max_years |-> IntOf(Words(parts[2])[1])]
        ELSE [ok |-> TRUE, min_years |-> 0, max_years |-> 0]

\* the (min_years, max_years) the requirement text parses to; ok FALSE is
\* the neutral "cannot parse" outcome
parse_experience_range(school_required) ==
    LET req == Lower(school_required)
    IN  IF IsSubstr(<<"5", "+">>, req)
           \/ IsSubstr(<<"5", " ", "o", "r", " ", "m", "o", "r", "e">>, req)
        THEN [ok |-> TRUE, min_years |-> 5, max_years |-> NO_UPPER_BOUND]
        ELSE IF IsSubstr(<<"-">>, req)
        THEN LET parts == Split(req, "-")
             IN  IF /\ IntParses(parts[1])
                    /\ Words(parts[2]) # <<>>
                    /\ IntParses(Words(parts[2])[1])
                 THEN [ok |-> TRUE, min_years |-> IntOf(parts[1]),
                       max_years |-> IntOf(Words(parts[2])[1])]
                 ELSE [ok |-> FALSE]
        ELSE [ok |-> FALSE]

\* the partial match of one year outside the range is left out
calculate_experience_score_NoNearMiss(teacher_years, school_required, required_empty) ==
    IF required_empty THEN 100
    ELSE LET r == parse_experience_range(school_required)
         IN  IF ~r.ok THEN 50
             ELSE IF r.min_years <= teacher_years /\ teacher_years <= r.max_years THEN 100
             ELSE IF teacher_years > r.max_years
                  THEN Max(70 - (teacher_years - r.max_years) * 5, 30)
             ELSE Max(50 - (r.min_years - teacher_years) * 10, 0)

\* required_empty: the requirement is None or ''
calculate_experience_score(teacher_years, school_required, required_empty) ==
    IF required_empty THEN 100
    ELSE LET r == parse_experience_range(school_required)
         IN  IF ~r.ok THEN 50
             ELSE IF r.min_years <= teacher_years /\ teacher_years <= r.max_years THEN 100
             ELSE IF Abs(teacher_years - r.min_years) <= 1 THEN 80
             ELSE IF Abs(teacher_years - r.max_years) <= 1 THEN 80
             ELSE IF teacher_years > r.max_years
                  THEN Max(70 - (teacher_years - r.max_years) * 5, 30)
             ELSE IF teacher_years < r.min_years
                  THEN Max(50 - (r.min_years - teacher_years) * 10, 0)
             ELSE 50

calculate_chinese_score(teacher_has_chinese, school_requires_chinese) ==
    IF school_requires_chinese
    THEN (IF teacher_has_chinese THEN 100 ELSE 0)
    ELSE (IF teacher_has_chinese THEN 100 ELSE 90)

\* round(x, 2) of x = n/d points, in hundredths: n/d is the exact value of
\* 100*x, rounded to the nearest integer, a tie to the even one
RoundHundredths(n, d) ==
    LET q == n \div d
        r == n % d
    IN  IF 2 * r < d THEN q
        ELSE IF 2 * r > d THEN q + 1
        ELSE IF q % 2 = 0 THEN q ELSE q + 1

\* round(total_score, 2): the weighted sum of the five sub-scores, in hundredths
WeightedTotal(location_score, subject_score, age_group_score, experience_score, chinese_score) ==
    LET den == subject_score.den * age_group_score.den
        num == (location_score.num * WEIGHT_LOCATION
                 + experience_score * WEIGHT_EXPERIENCE
                 + chinese_score * WEIGHT_CHINESE) * den
               + subject_score.num * WEIGHT_SUBJECT * age_group_score.den
               + age_group_score.num * WEIGHT_AGE_GROUP * subject_score.den
    IN  RoundHundredths(num, den)

\* a list column of a row (subjects_needed, age_groups, subjects): NULL reads as []
ListColumn(row, col) == IF col \in row.nulls THEN <<>> ELSE row[col]

calculate_match_score(teacher, school) ==
    LET teacher_locations == parse_comma_separated(teacher, "preferred_location")
        teacher_subjects == parse_comma_separated(teacher, "subject_specialty")
        teacher_age_groups == parse_comma_separated(teacher, "preferred_age_group")
        teacher_years == parse_years_experience(teacher)
        teacher_has_chinese == teacher.has_chinese
        school_subjects == ListColumn(school, "subjects_needed")
        school_age_groups == ListColumn(school, "age_groups")
        location == calculate_location_score(teacher_locations, school.city,
                        school.province, "province" \in school.nulls)
        subject_score == calculate_subject_score(teacher_subjects, school_subjects)
        age_group_score == calculate_age_group_score(teacher_age_groups, school_age_groups)
        experience_score == calculate_experience_score(teacher_years,
                        school.experience_required,
                        "experience_required" \in school.nulls
                            \/ school.experience_required = <<>>)
        chinese_score == calculate_chinese_score(teacher_has_chinese, school.chinese_required)
    IN  IF ~location.ok THEN Raised
        ELSE LET location_score == location.v
                 reasons ==
                    (IF AtLeast(location_score, 70)
                     THEN <<[kind |-> "Location match", what |-> {school.city}]>> ELSE <<>>)
                    \o (IF AtLeast(subject_score, 70)
                        THEN <<[kind |-> "Subject match",
                                what |-> LowerSet(teacher_subjects) \cap LowerSet(school_subjects)]>>
                        ELSE <<>>)
                    \o (IF AtLeast(age_group_score, 70)
                        THEN <<[kind |-> "Age group match",
                                what |-> LowerSet(teacher_age_groups) \cap LowerSet(school_age_groups)]>>
                        ELSE <<>>)
                    \o (IF experience_score >= 80
                        THEN <<[kind |-> "Experience level", what |-> {teacher_years}]>>
                        ELSE <<>>)
                    \o (IF chinese_score = 100 /\ school.chinese_required
                        THEN <<[kind |-> "Chinese language proficiency", what |-> {}]>>
                        ELSE <<>>)
             IN  [ok |-> TRUE,
                  score |-> WeightedTotal(location_score, subject_score, age_group_score,
                                          experience_score, chinese_score),
                  reasons |-> reasons]

\* a text column of a job row read with  job.get(col, '') or ''
TextOrEmpty(row, col) == IF col \in row.nulls THEN <<>> ELSE row[col]

calculate_job_match_score(teacher, job) ==
    LET teacher_locations == parse_comma_separated(teacher, "preferred_location")
        teacher_subjects == parse_comma_separated(teacher, "subject_specialty")
        teacher_age_groups == parse_comma_separated(teacher, "preferred_age_group")
        teacher_years == parse_years_experience(teacher)
        teacher_has_chinese == teacher.has_chinese
        job_city == TextOrEmpty(job, "city")
        job_province == TextOrEmpty(job, "province")
        job_subjects == ListColumn(job, "subjects")
        job_age_groups == ListColumn(job, "age_groups")
        job_experience_req == TextOrEmpty(job, "experience")
        location_score == calculate_location_score(teacher_locations, job_city,
                              job_province, FALSE).v
        subject_score == calculate_subject_score(teacher_subjects, job_subjects)
        age_group_score == calculate_age_group_score(teacher_age_groups, job_age_groups)
        experience_score == calculate_experience_score(teacher_years, job_experience_req,
                              job_experience_req = <<>>)
        chinese_score == calculate_chinese_score(teacher_has_chinese, job.chinese_required)
        city_display == IF job_city # <<>> THEN job_city
                        ELSE IF job_province # <<>> THEN job_province
                        ELSE <<"C", "h", "i", "n", "a">>
        reasons ==
            (IF AtLeast(location_score, 70)
             THEN <<[kind |-> "Location match", what |-> {city_display}]>> ELSE <<>>)
            \o (IF AtLeast(subject_score, 70) /\ teacher_subjects # <<>> /\ job_subjects # <<>>
                THEN <<[kind |-> "Subject match",
                        what |-> LowerSet(teacher_subjects) \cap LowerSet(job_subjects)]>>
                ELSE <<>>)
            \o (IF AtLeast(age_group_score, 70) /\ teacher_age_groups # <<>>
                   /\ job_age_groups # <<>>
                THEN <<[kind |-> "Age group match",
                        what |-> LowerSet(teacher_age_groups) \cap LowerSet(job_age_groups)]>>
                ELSE <<>>)
            \o (IF experience_score >= 80
                THEN <<[kind |-> "Experience level", what |-> {teacher_years}]>>
                ELSE <<>>)
            \o (IF chinese_score = 100 /\ job.chinese_required
                THEN <<[kind |-> "Chinese language proficiency", what |-> {}]>>
                ELSE <<>>)
    IN  [ok |-> TRUE,
         score |-> WeightedTotal(location_score, subject_score, age_group_score,
                                 experience_score, chinese_score),
         reasons |-> reasons]

\* calculate_school_job_match_score of the school-job endpoints: the posting
\* keeps its requirement in experience_required, and a subject or age-group
\* reason is added only for a non-empty intersection
calculate_school_job_match_score(teacher, job) ==
    LET teacher_locations == parse_comma_separated(teacher, "preferred_location")
        teacher_subjects == parse_comma_separated(teacher, "subject_specialty")
        teacher_age_groups == parse_comma_separated(teacher, "preferred_age_group")
        teacher_years == parse_years_experience(teacher)
        teacher_has_chinese == teacher.has_chinese
        job_city == TextOrEmpty(job, "city")
        job_province == TextOrEmpty(job, "province")
        job_subjects == ListColumn(job, "subjects")
        job_age_groups == ListColumn(job, "age_groups")
        job_experience_req == TextOrEmpty(job, "experience_required")
        location_score == calculate_location_score(teacher_locations, job_city,
                              job_province, FALSE).v
        subject_score == calculate_subject_score(teacher_subjects, job_subjects)
        age_group_score == calculate_age_group_score(teacher_age_groups, job_age_groups)
        experience_score == calculate_experience_score(teacher_years, job_experience_req,
                              job_experience_req = <<>>)
        chinese_score == calculate_chinese_score(teacher_has_chinese, job.chinese_required)
        city_display == IF job_city # <<>> THEN job_city
                        ELSE IF job_province # <<>> THEN job_province
                        ELSE <<"C", "h", "i", "n", "a">>
        matching_subjects == LowerSet(teacher_subjects) \cap LowerSet(job_subjects)
        matching_ages == LowerSet(teacher_age_groups) \cap LowerSet(job_age_groups)
        reasons ==
            (IF AtLeast(location_score, 70)
             THEN <<[kind |-> "Location match", what |-> {city_display}]>> ELSE <<>>)
            \o (IF /\ AtLeast(subject_score, 70) /\ teacher_subjects # <<>> /\ job_subjects # <<>>
                   /\ matching_subjects # {}
                THEN <<[kind |-> "Subject match", what |-> matching_subjects]>>
                ELSE <<>>)
            \o (IF /\ AtLeast(age_group_score, 70) /\ teacher_age_groups # <<>>
                   /\ job_age_groups # <<>> /\ matching_ages # {}
                THEN <<[kind |-> "Age group match", what |-> matching_ages]>>
                ELSE <<>>)
            \o (IF experience_score >= 80
                THEN <<[kind |-> "Experience level", what |-> {teacher_years}]>>
                ELSE <<>>)
            \o (IF chinese_score = 100 /\ job.chinese_required
                THEN <<[kind |-> "Chinese language proficiency", what |-> {}]>>
                ELSE <<>>)
    IN  [ok |-> TRUE,
         score |-> WeightedTotal(location_score, subject_score, age_group_score,
                                 experience_score, chinese_score),
         reasons |-> reasons]

(***************************************************************************)
(* The relational store.                                                   *)
(*   teachers, schools, jobs : primary key -> row (the domain is the set   *)
(*                       of stored ids)                                    *)
(*   matches           : the rows of teacher_school_matches                *)
(*   nextId            : the serial of teacher_school_matches.id           *)
(*   applications      : the rows of teacher_school_applications           *)
(* proc[p] is one invocation of a recompute or of a handler that spans     *)
(* several store calls, with its position and its locals.  faults counts   *)
(* the store writes that have failed.                                      *)
(* last names the recompute that was the last to change the store, when it *)
(* ran to its end with no other write in between.                          *)
(* requests counts the requests accepted so far.                           *)
(* school_jobs is the table of the job postings of the school accounts.   *)
(* response is what the last read-only call returned: a view of the match  *)
(* table or the value of a scoring function, with its arguments.           *)
(***************************************************************************)
VARIABLES teachers, schools, jobs, school_jobs, matches, nextId, applications,
          proc, faults, last, requests, response

vars == <<teachers, schools, jobs, school_jobs, matches, nextId, applications,
          proc, faults, last, requests, response>>

\* bounds of the model
MaxProcs == 2
MaxId == 6
MaxFaults == 1
MaxRequests == 2

\* the small limit a caller of a view passes
SmallLimit == 2

\* the years of a teacher, and the years a requirement names, that are scored
MaxYears == 12
MaxRequired == 8

TeacherIds == {1, 2}
SchoolIds == {1, 2}
JobIds == {1}
\* an id no row has
MissingId == CHOOSE n \in 1..MaxId : n \notin TeacherIds \cup SchoolIds \cup JobIds

BJ == <<"B", "J">>
SH == <<"S", "H">>
Cities == {BJ, SH}
RoleNames == {"Maths teacher"}

DEFAULT_MIN_SCORE == 5000
MinScores == {DEFAULT_MIN_SCORE, 8000}

TeacherRow(loc) ==
    [preferred_location |-> loc, subject_specialty |-> <<"m", "a">>,
     preferred_age_group |-> <<"p">>, years_experience |-> <<"3">>,
     has_chinese |-> FALSE, phone |-> <<>>, nulls |-> {"phone"}]

SchoolRow(city) ==
    [name |-> <<"S">>, city |-> Lower(city), province |-> <<"h", "b">>,
     school_type |-> "international", salary_range |-> <<"2", "0", "k">>,
     subjects_needed |-> << <<"e", "n">> >>, age_groups |-> << <<"P">> >>,
     experience_required |-> <<"3", "-", "5", " ", "y">>,
     chinese_required |-> FALSE, is_active |-> TRUE, nulls |-> {}]

\* an external job listing: no province given
JobRow(city) ==
    [title |-> <<"T">>, company |-> <<"C">>,
     city |-> Lower(city), province |-> <<>>, subjects |-> << <<"e", "n">> >>,
     age_groups |-> << <<"p">> >>, experience |-> <<>>, chinese_required |-> FALSE,
     is_active |-> TRUE, source |-> "tes", nulls |-> {"province", "experience"}]

\* preferred_location is left out
PREFERENCE_FIELDS_NoLocation ==
    {"subject_specialty", "preferred_age_group", "years_experience"}

\* Fields that affect matching
PREFERENCE_FIELDS ==
    {"subject_specialty", "preferred_location", "preferred_age_group", "years_experience"}

MATCHING_FIELDS ==
    {"subjects_needed", "age_groups", "city", "province", "experience_required",
     "chinese_required"}

\* the request bodies of PATCH /teachers/me and PATCH /schools/{id}: the
\* fields set and their values
TeacherUpdates ==
    {[fields |-> {"preferred_location"}, preferred_location |-> c] : c \in Cities}
    \cup {[fields |-> {"phone"}, phone |-> <<"1">>]}

SchoolUpdates ==
    {[fields |-> {"city"}, city |-> Lower(c)] : c \in Cities}
    \cup {[fields |-> {"is_active"}, is_active |-> b] : b \in BOOLEAN}

\* UPDATE ... SET of the fields of an update_dict
ApplyUpdate(row, upd) ==
    [f \in DOMAIN row |->
        IF f = "nulls" THEN row.nulls \ upd.fields
        ELSE IF f \in upd.fields THEN upd[f] ELSE row[f]]

(***************************************************************************)
(* teacher_school_matches.                                                 *)
(***************************************************************************)
\* a row as INSERT stores it: the columns not given take their defaults
NewMatchRow(id, teacher_id, school_id, score, reasons) ==
    [id |-> id, teacher_id |-> teacher_id, school_id |-> school_id, job_id |-> 0,
     match_score |-> score, match_reasons |-> reasons,
     is_submitted |-> FALSE, role_name |-> "", nulls |-> {"job_id", "role_name"}]

IsSchoolRow(r) == "school_id" \notin r.nulls

RowsOf(tbl, teacher_id, school_id) ==
    {r \in tbl : IsSchoolRow(r) /\ r.teacher_id = teacher_id /\ r.school_id = school_id}

\* the unique constraint on (teacher_id, school_id) that on_conflict names
KeyConflict(tbl, teacher_id, school_id) == RowsOf(tbl, teacher_id, school_id) # {}

\* on a conflict the new score is added to the stored one
Upsert_Accumulating(tbl, id, teacher_id, school_id, score, reasons) ==
    IF KeyConflict(tbl, teacher_id, school_id)
    THEN {IF r \in RowsOf(tbl, teacher_id, school_id)
          THEN [r EXCEPT !.match_score = @ + score, !.match_reasons = reasons]
          ELSE r : r \in tbl}
    ELSE tbl \cup {NewMatchRow(id, teacher_id, school_id, score, reasons)}

\* .upsert(match_data, on_conflict="teacher_id,school_id"): on a conflict
\* only the columns of match_data are written
Upsert(tbl, id, teacher_id, school_id, score, reasons) ==
    IF KeyConflict(tbl, teacher_id, school_id)
    THEN {IF r \in RowsOf(tbl, teacher_id, school_id)
          THEN [r EXCEPT !.match_score = score, !.match_reasons = reasons]
          ELSE r : r \in tbl}
    ELSE tbl \cup {NewMatchRow(id, teacher_id, school_id, score, reasons)}

\* the delete is left out
DeletePair_Skipped(tbl, teacher_id, school_id) == tbl

\* .delete().eq("teacher_id", t).eq("school_id", s)
DeletePair(tbl, teacher_id, school_id) == tbl \ RowsOf(tbl, teacher_id, school_id)

\* .delete().eq("teacher_id", t)
DeleteTeacherRows(tbl, teacher_id) == {r \in tbl : r.teacher_id # teacher_id}

(***************************************************************************)
(* Invocations.                                                            *)
(***************************************************************************)
Idle ==
    [pc |-> "idle", kind |-> "none", caller |-> "none", id |-> 0, min_score |-> 0,
     row |-> <<>>, todo |-> <<>>, count |-> 0, exc |-> "none", outcome |-> "none",
     quiet |-> TRUE, pre |-> {}, failed |-> <<>>, found |-> FALSE, rerun |-> FALSE,
     school_id |-> 0, role_name |-> "", match_id |-> 0, edit |-> <<>>]

NoLast == [kind |-> "none", id |-> 0, min_score |-> 0]

KeyOf(r) == [kind |-> r.kind, id |-> r.id, min_score |-> r.min_score]

\* a recompute that has been requested and has not made its first store call
Scheduled(kind, caller, id, min_score) ==
    [Idle EXCEPT !.pc = "start", !.kind = kind, !.caller = caller, !.id = id,
                 !.min_score = min_score]

IdleSlots == {p \in DOMAIN proc : proc[p].pc = "idle"}

\* the slot a new invocation takes
FreeSlot == CHOOSE p \in IdleSlots : \A q \in IdleSlots : p <= q

Active(r) == r.pc \notin {"idle", "start", "done"}

\* a store write by invocation p (p = 0: by a request handler): every other
\* invocation under way has now seen a concurrent change
Disturb(pr, p) ==
    [q \in DOMAIN pr |->
        IF q # p /\ pr[q].pc \notin {"idle", "start"}
        THEN [pr[q] EXCEPT !.quiet = FALSE, !.pre = {}]
        ELSE pr[q]]

\* every exception is answered alike
run_matching_NoNotFound(exc) == IF exc = "none" THEN "200" ELSE "500"

\* POST /matching/run: the response of the endpoint
run_matching(exc) ==
    IF exc = "none" THEN "200"
    ELSE IF exc = "ValueError" THEN "404"
    ELSE "500"

\* the wrapper lets the exception through
BackgroundWrapper_Reraising(exc) == IF exc = "none" THEN "logged_info" ELSE "raised"

\* _run_matching_for_teacher, _run_matching_for_school: the background task
\* wrappers log the result or the exception and return
BackgroundWrapper(exc) == IF exc = "none" THEN "logged_info" ELSE "logged_error"

\* what the caller of the recompute gets
OutcomeFor(caller, exc) ==
    IF caller = "admin" THEN run_matching(exc)
    ELSE IF caller = "background" THEN BackgroundWrapper(exc)
    ELSE IF exc = "none" THEN "returned" ELSE "raised"

\* the invocation ends: normally with count, or by the exception exc
Ended(r, exc, count) ==
    [r EXCEPT !.pc = "done", !.exc = exc, !.count = count, !.todo = <<>>,
              !.row = <<>>, !.outcome = OutcomeFor(r.caller, exc)]

\* the ids of a set in ascending order, as the store returns rows
RECURSIVE Ascending(_)
Ascending(ids) ==
    IF ids = {} THEN <<>>
    ELSE LET m == CHOOSE x \in ids : \A y \in ids : x <= y
         IN  <<m>> \o Ascending(ids \ {m})

\* list.sort(key=match_score, reverse=True): stable, highest score first
RECURSIVE InsertDesc(_, _)
InsertDesc(sorted, m) ==
    IF sorted = <<>> THEN <<m>>
    ELSE IF Head(sorted).match_score >= m.match_score
         THEN <<Head(sorted)>> \o InsertDesc(Tail(sorted), m)
         ELSE <<m>> \o sorted

RECURSIVE SortDesc(_)
SortDesc(ms) ==
    IF ms = <<>> THEN <<>>
    ELSE InsertDesc(SortDesc(SubSeq(ms, 1, Len(ms) - 1)), ms[Len(ms)])


\* the first store call of an invocation: from here on it observes the store
Begun(r) ==
    [r EXCEPT !.quiet = TRUE, !.pre = matches, !.rerun = (last = KeyOf(r))]

\* the store after a write of invocation p that left the table as tbl and
\* the invocation as r
Written(p, r, tbl) ==
    /\ matches' = tbl
    /\ proc' = IF tbl = matches THEN [proc EXCEPT ![p] = r]
               ELSE [Disturb(proc, p) EXCEPT ![p] = r]
    /\ last' = IF r.pc = "done" /\ r.exc = "none" /\ r.quiet
                  /\ r.kind \in {"teacher", "school", "job", "teacher_jobs"}
               THEN KeyOf(r)
               ELSE IF tbl = matches THEN last
               ELSE NoLast

(***************************************************************************)
(* MatchingService.run_matching_for_teacher                                *)
(***************************************************************************)
\* the qualifying pairs of one teacher row against a list of school ids, in
\* the order of the list; ok FALSE when a scoring call raises
RECURSIVE TeacherMatches(_, _, _, _)
TeacherMatches(teacher_id, teacher, school_ids, min_score) ==
    IF school_ids = <<>> THEN [ok |-> TRUE, matches |-> <<>>]
    ELSE LET sc == calculate_match_score(teacher, schools[Head(school_ids)])
             rest == TeacherMatches(teacher_id, teacher, Tail(school_ids), min_score)
         IN  IF ~sc.ok \/ ~rest.ok THEN [ok |-> FALSE]
             ELSE IF sc.score >= min_score
             THEN [ok |-> TRUE,
                   matches |-> <<[teacher_id |-> teacher_id, school_id |-> Head(school_ids),
                                  match_score |-> sc.score, match_reasons |-> sc.reasons]>>
                               \o rest.matches]
             ELSE rest

\* the is_active filter is left out
ActiveSchoolIds_Unfiltered == DOMAIN schools

ActiveSchoolIds == {s \in DOMAIN schools : schools[s].is_active}

\* teachers.select("*").eq("id", teacher_id).single()
T_ReadTeacher(p) ==
    /\ proc[p].pc = "start" /\ proc[p].kind = "teacher"
    /\ LET r == Begun(proc[p])
       IN  proc' = [proc EXCEPT ![p] =
                IF r.id \notin DOMAIN teachers
                THEN Ended(r, "ValueError", 0)
                ELSE [r EXCEPT !.pc = "read_schools", !.row = <<teachers[r.id]>>,
                               !.found = TRUE]]
    /\ UNCHANGED <<teachers, schools, jobs, school_jobs, matches, nextId, applications, faults, last, requests, response>>

\* schools.select("*").eq("is_active", True), the scoring loop and the sort
T_ReadSchools(p) ==
    /\ proc[p].pc = "read_schools" /\ proc[p].kind = "teacher"
    /\ LET r == proc[p]
           res == TeacherMatches(r.id, r.row[1], Ascending(ActiveSchoolIds), r.min_score)
       IN  proc' = [proc EXCEPT ![p] =
                IF ~res.ok THEN Ended(r, "AttributeError", 0)
                ELSE [r EXCEPT !.pc = "delete", !.row = <<>>,
                               !.todo = SortDesc(res.matches),
                               !.count = Len(res.matches)]]
    /\ UNCHANGED <<teachers, schools, jobs, school_jobs, matches, nextId, applications, faults, last, requests, response>>

\* teacher_school_matches.delete().eq("teacher_id", teacher_id)
T_Delete(p) ==
    /\ proc[p].pc = "delete" /\ proc[p].kind = "teacher"
    /\ LET r == proc[p]
       IN  Written(p,
                   IF r.todo = <<>> THEN Ended(r, "none", r.count)
                   ELSE [r EXCEPT !.pc = "insert"],
                   DeleteTeacherRows(matches, r.id))
    /\ UNCHANGED <<teachers, schools, jobs, school_jobs, nextId, applications, faults, requests, response>>

\* only the top match is saved
T_Insert_TopOnly(p) ==
    /\ proc[p].pc = "insert" /\ proc[p].kind = "teacher"
    /\ LET r == proc[p]
           m == Head(r.todo)
       IN  IF KeyConflict(matches, m.teacher_id, m.school_id)
           THEN /\ Written(p, [Ended(r, "APIError", 0) EXCEPT
                                   !.failed = <<m.teacher_id, m.school_id>>], matches)
                /\ UNCHANGED nextId
           ELSE /\ nextId <= MaxId
                /\ Written(p, Ended(r, "none", r.count),
                       matches \cup {NewMatchRow(nextId, m.teacher_id, m.school_id,
                                                 m.match_score, m.match_reasons)})
                /\ nextId' = nextId + 1
    /\ UNCHANGED <<teachers, schools, jobs, school_jobs, applications, faults, requests, response>>

\* teacher_school_matches.insert(db_match) for the next match of the list
T_Insert(p) ==
    /\ proc[p].pc = "insert" /\ proc[p].kind = "teacher"
    /\ LET r == proc[p]
           m == Head(r.todo)
       IN  IF KeyConflict(matches, m.teacher_id, m.school_id)
           THEN /\ Written(p, [Ended(r, "APIError", 0) EXCEPT
                                   !.failed = <<m.teacher_id, m.school_id>>], matches)
                /\ UNCHANGED nextId
           ELSE /\ nextId <= MaxId
                /\ Written(p,
                       IF Tail(r.todo) = <<>> THEN Ended(r, "none", r.count)
                       ELSE [r EXCEPT !.todo = Tail(r.todo)],
                       matches \cup {NewMatchRow(nextId, m.teacher_id, m.school_id,
                                                 m.match_score, m.match_reasons)})
                /\ nextId' = nextId + 1
    /\ UNCHANGED <<teachers, schools, jobs, school_jobs, applications, faults, requests, response>>

(***************************************************************************)
(* MatchingService.run_matching_for_school                                 *)
(***************************************************************************)
\* schools.select("*").eq("id", school_id).eq("is_active", True).single()
S_ReadSchool(p) ==
    /\ proc[p].pc = "start" /\ proc[p].kind = "school"
    /\ LET r == Begun(proc[p])
       IN  proc' = [proc EXCEPT ![p] =
                IF r.id \notin ActiveSchoolIds
                THEN Ended(r, "none", 0)
                ELSE [r EXCEPT !.pc = "read_teachers", !.row = <<schools[r.id]>>,
                               !.found = TRUE]]
    /\ UNCHANGED <<teachers, schools, jobs, school_jobs, matches, nextId, applications, faults, last, requests, response>>

\* teachers.select("*")
S_ReadTeachers(p) ==
    /\ proc[p].pc = "read_teachers" /\ proc[p].kind = "school"
    /\ LET r == proc[p]
           ids == Ascending(DOMAIN teachers)
       IN  proc' = [proc EXCEPT ![p] =
                IF ids = <<>> THEN Ended(r, "none", 0)
                ELSE [r EXCEPT !.pc = "pair",
                               !.todo = [i \in 1..Len(ids) |->
                                            [id |-> ids[i], row |-> teachers[ids[i]]]]]]
    /\ UNCHANGED <<teachers, schools, jobs, school_jobs, matches, nextId, applications, faults, last, requests, response>>

\* one turn of the loop: score the next teacher, then upsert or delete
S_Pair(p) ==
    /\ proc[p].pc = "pair" /\ proc[p].kind = "school"
    /\ LET r == proc[p]
           t == Head(r.todo)
           sc == calculate_match_score(t.row, r.row[1])
           qualifies == sc.ok /\ sc.score >= r.min_score
           count == IF qualifies THEN r.count + 1 ELSE r.count
           next == IF Tail(r.todo) = <<>> THEN Ended(r, "none", count)
                   ELSE [r EXCEPT !.todo = Tail(r.todo), !.count = count]
       IN  IF ~sc.ok
           THEN /\ Written(p, Ended(r, "AttributeError", 0), matches)
                /\ UNCHANGED nextId
           ELSE IF qualifies
           THEN /\ KeyConflict(matches, t.id, r.id) \/ nextId <= MaxId
                /\ Written(p, next,
                           Upsert(matches, nextId, t.id, r.id, sc.score, sc.reasons))
                /\ nextId' = IF KeyConflict(matches, t.id, r.id) THEN nextId
                             ELSE nextId + 1
           ELSE /\ Written(p, next, DeletePair(matches, t.id, r.id))
                /\ UNCHANGED nextId
    /\ UNCHANGED <<teachers, schools, jobs, school_jobs, applications, faults, requests, response>>


(***************************************************************************)
(* External jobs: run_matching_for_job and run_matching_for_teacher_jobs   *)
(* keep their rows in the same table, with job_id set and school_id NULL.  *)
(***************************************************************************)
NewJobMatchRow(id, teacher_id, job_id, score, reasons) ==
    [id |-> id, teacher_id |-> teacher_id, school_id |-> 0, job_id |-> job_id,
     match_score |-> score, match_reasons |-> reasons,
     is_submitted |-> FALSE, role_name |-> "", nulls |-> {"school_id", "role_name"}]

JobRowsOf(tbl, teacher_id, job_id) ==
    {r \in tbl : "job_id" \notin r.nulls /\ r.teacher_id = teacher_id /\ r.job_id = job_id}

\* select("id").eq("teacher_id", t).eq("job_id", j): existing.data[0]["id"],
\* or 0 when existing.data is empty
ExistingJobMatch(tbl, teacher_id, job_id) ==
    LET rows == JobRowsOf(tbl, teacher_id, job_id)
    IN  IF rows = {} THEN 0
        ELSE (CHOOSE r \in rows : \A q \in rows : r.id <= q.id).id

\* update(...).eq("id", match_id) when a row was found, insert(match_data) if not
JobWrite(tbl, match_id, id, teacher_id, job_id, score, reasons) ==
    IF match_id # 0
    THEN {IF r.id = match_id
          THEN [r EXCEPT !.match_score = score, !.match_reasons = reasons]
          ELSE r : r \in tbl}
    ELSE tbl \cup {NewJobMatchRow(id, teacher_id, job_id, score, reasons)}

\* the is_active filter is left out
ActiveJobIds_Unfiltered == DOMAIN jobs

ActiveJobIds == {j \in DOMAIN jobs : jobs[j].is_active}

\* jobs.select("*").eq("id", job_id).eq("is_active", True).single()
J_ReadJob(p) ==
    /\ proc[p].pc = "start" /\ proc[p].kind = "job"
    /\ LET r == Begun(proc[p])
       IN  proc' = [proc EXCEPT ![p] =
                IF r.id \notin ActiveJobIds
                THEN Ended(r, "none", 0)
                ELSE [r EXCEPT !.pc = "read_teachers", !.row = <<jobs[r.id]>>,
                               !.found = TRUE]]
    /\ UNCHANGED <<teachers, schools, jobs, school_jobs, matches, nextId, applications, faults, last, requests, response>>

J_ReadTeachers(p) ==
    /\ proc[p].pc = "read_teachers" /\ proc[p].kind = "job"
    /\ LET r == proc[p]
           ids == Ascending(DOMAIN teachers)
       IN  proc' = [proc EXCEPT ![p] =
                IF ids = <<>> THEN Ended(r, "none", 0)
                ELSE [r EXCEPT !.pc = "job_pair",
                               !.todo = [i \in 1..Len(ids) |->
                                            [id |-> ids[i], row |-> teachers[ids[i]]]]]]
    /\ UNCHANGED <<teachers, schools, jobs, school_jobs, matches, nextId, applications, faults, last, requests, response>>

\* the loop went through one more element of todo
Advanced(r, count) ==
    IF Tail(r.todo) = <<>> THEN Ended(r, "none", count)
    ELSE [r EXCEPT !.todo = Tail(r.todo), !.count = count, !.match_id = 0]

\* score the next teacher; look the existing row up, or delete below threshold
J_Pair(p) ==
    /\ proc[p].pc = "job_pair" /\ proc[p].kind = "job"
    /\ LET r == proc[p]
           t == Head(r.todo)
           sc == calculate_job_match_score(t.row, r.row[1])
       IN  IF sc.score >= r.min_score
           THEN /\ proc' = [proc EXCEPT ![p] =
                      [r EXCEPT !.pc = "job_write",
                                !.match_id = ExistingJobMatch(matches, t.id, r.id)]]
                /\ UNCHANGED <<matches, last>>
           ELSE Written(p, [Advanced(r, r.count) EXCEPT
                               !.pc = IF @ = "done" THEN "done" ELSE "job_pair"],
                        matches \ JobRowsOf(matches, t.id, r.id))
    /\ UNCHANGED <<teachers, schools, jobs, school_jobs, nextId, applications, faults, requests, response>>

J_Write(p) ==
    /\ proc[p].pc = "job_write" /\ proc[p].kind = "job"
    /\ LET r == proc[p]
           t == Head(r.todo)
           sc == calculate_job_match_score(t.row, r.row[1])
           next == Advanced(r, r.count + 1)
       IN  /\ r.match_id # 0 \/ nextId <= MaxId
           /\ Written(p, [next EXCEPT !.pc = IF @ = "done" THEN "done" ELSE "job_pair"],
                      JobWrite(matches, r.match_id, nextId, t.id, r.id, sc.score, sc.reasons))
           /\ nextId' = IF r.match_id # 0 THEN nextId ELSE nextId + 1
    /\ UNCHANGED <<teachers, schools, jobs, school_jobs, applications, faults, requests, response>>

\* teachers.select("*").eq("id", teacher_id).single()
TJ_ReadTeacher(p) ==
    /\ proc[p].pc = "start" /\ proc[p].kind = "teacher_jobs"
    /\ LET r == Begun(proc[p])
       IN  proc' = [proc EXCEPT ![p] =
                IF r.id \notin DOMAIN teachers
                THEN Ended(r, "ValueError", 0)
                ELSE [r EXCEPT !.pc = "read_jobs", !.row = <<teachers[r.id]>>,
                               !.found = TRUE]]
    /\ UNCHANGED <<teachers, schools, jobs, school_jobs, matches, nextId, applications, faults, last, requests, response>>

\* jobs.select("*").eq("is_active", True).neq("source", "manual")
TJ_ReadJobs(p) ==
    /\ proc[p].pc = "read_jobs" /\ proc[p].kind = "teacher_jobs"
    /\ LET r == proc[p]
           ids == Ascending({j \in ActiveJobIds : jobs[j].source # "manual"})
       IN  proc' = [proc EXCEPT ![p] =
                IF ids = <<>> THEN Ended(r, "none", 0)
                ELSE [r EXCEPT !.pc = "tj_pair",
                               !.todo = [i \in 1..Len(ids) |->
                                            [id |-> ids[i], row |-> jobs[ids[i]]]]]]
    /\ UNCHANGED <<teachers, schools, jobs, school_jobs, matches, nextId, applications, faults, last, requests, response>>

\* score the next job; look the existing row up when the pair qualifies
TJ_Pair(p) ==
    /\ proc[p].pc = "tj_pair" /\ proc[p].kind = "teacher_jobs"
    /\ LET r == proc[p]
           j == Head(r.todo)
           sc == calculate_job_match_score(r.row[1], j.row)
       IN  proc' = [proc EXCEPT ![p] =
                IF sc.score >= r.min_score
                THEN [r EXCEPT !.pc = "tj_write",
                               !.match_id = ExistingJobMatch(matches, r.id, j.id)]
                ELSE Advanced(r, r.count)]
    /\ UNCHANGED <<teachers, schools, jobs, school_jobs, matches, nextId, applications, faults, last, requests, response>>

TJ_Write(p) ==
    /\ proc[p].pc = "tj_write" /\ proc[p].kind = "teacher_jobs"
    /\ LET r == proc[p]
           j == Head(r.todo)
           sc == calculate_job_match_score(r.row[1], j.row)
           next == Advanced(r, r.count + 1)
       IN  /\ r.match_id # 0 \/ nextId <= MaxId
           /\ Written(p, [next EXCEPT !.pc = IF @ = "done" THEN "done" ELSE "tj_pair"],
                      JobWrite(matches, r.match_id, nextId, r.id, j.id, sc.score, sc.reasons))
           /\ nextId' = IF r.match_id # 0 THEN nextId ELSE nextId + 1
    /\ UNCHANGED <<teachers, schools, jobs, school_jobs, applications, faults, requests, response>>

(***************************************************************************)
(* A store write that fails: the client raises APIError and the table is   *)
(* as it was.                                                              *)
(***************************************************************************)
\* the pair the write of invocation r is about (school 0: every pair of the
\* teacher, for the delete of run_matching_for_teacher)
WriteTarget(r) ==
    IF r.kind = "teacher"
    THEN (IF r.pc = "delete" THEN <<r.id, 0>> ELSE <<r.id, Head(r.todo).school_id>>)
    ELSE <<Head(r.todo).id, r.id>>

StoreWriteFails(p) ==
    /\ proc[p].pc \in {"delete", "insert", "pair"}
    /\ faults < MaxFaults
    /\ faults' = faults + 1
    /\ proc' = [proc EXCEPT ![p] =
                  [Ended(proc[p], "APIError", 0) EXCEPT !.failed = WriteTarget(proc[p])]]
    /\ UNCHANGED <<teachers, schools, jobs, school_jobs, matches, nextId, applications, last, requests, response>>

(***************************************************************************)
(* Requests.                                                               *)
(***************************************************************************)
\* a request is accepted
Accept == requests < MaxRequests /\ requests' = requests + 1

\* PATCH /teachers/me
update_teacher_profile(t, upd) ==
    /\ Accept
    /\ t \in DOMAIN teachers
    /\ teachers' = [teachers EXCEPT ![t] = ApplyUpdate(@, upd)]
    /\ IF upd.fields \cap PREFERENCE_FIELDS # {}
       THEN /\ IdleSlots # {}
            /\ proc' = [Disturb(proc, 0) EXCEPT ![FreeSlot] =
                          Scheduled("teacher", "background", t, DEFAULT_MIN_SCORE)]
       ELSE proc' = Disturb(proc, 0)
    /\ last' = NoLast
    /\ UNCHANGED <<schools, jobs, school_jobs, matches, nextId, applications, faults, response>>

\* PATCH /schools/{school_id}
update_school(s, upd) ==
    /\ Accept
    /\ s \in DOMAIN schools
    /\ schools' = [schools EXCEPT ![s] = ApplyUpdate(@, upd)]
    /\ IF upd.fields \cap MATCHING_FIELDS # {}
       THEN /\ IdleSlots # {}
            /\ proc' = [Disturb(proc, 0) EXCEPT ![FreeSlot] =
                          Scheduled("school", "background", s, DEFAULT_MIN_SCORE)]
       ELSE proc' = Disturb(proc, 0)
    /\ last' = NoLast
    /\ UNCHANGED <<teachers, jobs, school_jobs, matches, nextId, applications, faults, response>>

\* POST /matching/run?teacher_id=t
AdminRunMatching(t) ==
    /\ Accept
    /\ IdleSlots # {}
    /\ proc' = [proc EXCEPT ![FreeSlot] =
                  Scheduled("teacher", "admin", t, DEFAULT_MIN_SCORE)]
    /\ UNCHANGED <<teachers, schools, jobs, school_jobs, matches, nextId, applications, faults, last, response>>

\* a direct call of the service with a threshold of the caller's choice
ServiceCall(kind, id, min_score) ==
    /\ Accept
    /\ IdleSlots # {}
    /\ proc' = [proc EXCEPT ![FreeSlot] = Scheduled(kind, "service", id, min_score)]
    /\ UNCHANGED <<teachers, schools, jobs, school_jobs, matches, nextId, applications, faults, last, response>>

\* the serial primary key of a new row
NewRowId(tbl) == Cardinality(DOMAIN tbl) + 1

\* the row a sign-up stores: years_experience and phone are not given
NewTeacherRow(loc) == [TeacherRow(loc) EXCEPT !.nulls = @ \cup {"years_experience"}]

\* POST /teachers: the profile is stored and no task is added
create_teacher(loc) ==
    /\ Accept
    /\ teachers' = teachers @@ (NewRowId(teachers) :> NewTeacherRow(loc))
    /\ proc' = Disturb(proc, 0)
    /\ last' = NoLast
    /\ UNCHANGED <<schools, jobs, school_jobs, matches, nextId, applications, faults, response>>

\* POST /signup/create-teacher-profile and /create-teacher-profile-v2: the
\* profile is stored, the team is notified, and no task is added
create_teacher_profile_signup(loc) ==
    /\ Accept
    /\ teachers' = teachers @@ (NewRowId(teachers) :> NewTeacherRow(loc))
    /\ proc' = Disturb(proc, 0)
    /\ last' = NoLast
    /\ UNCHANGED <<schools, jobs, school_jobs, matches, nextId, applications, faults, response>>

\* the school is stored and no task is added
create_school_Unscheduled(city, is_active) ==
    /\ Accept
    /\ schools' = schools @@
          (NewRowId(schools) :> [SchoolRow(city) EXCEPT !.is_active = is_active])
    /\ proc' = Disturb(proc, 0)
    /\ last' = NoLast
    /\ UNCHANGED <<teachers, jobs, school_jobs, matches, nextId, applications, faults, response>>

\* POST /schools
create_school(city, is_active) ==
    /\ Accept
    /\ IdleSlots # {}
    /\ schools' = schools @@
          (NewRowId(schools) :> [SchoolRow(city) EXCEPT !.is_active = is_active])
    /\ proc' = [Disturb(proc, 0) EXCEPT ![FreeSlot] =
                  Scheduled("school", "background", NewRowId(schools), DEFAULT_MIN_SCORE)]
    /\ last' = NoLast
    /\ UNCHANGED <<teachers, jobs, school_jobs, matches, nextId, applications, faults, response>>

\* the caller has its result: the invocation is over
Release(p) ==
    /\ proc[p].pc = "done"
    /\ proc' = [proc EXCEPT ![p] = Idle]
    /\ UNCHANGED <<teachers, schools, jobs, school_jobs, matches, nextId, applications, faults, last, requests, response>>

(***************************************************************************)
(* POST /applications/submit for one school of school_ids                  *)
(***************************************************************************)
\* role_name "" : the request gives no role name
submit_applications(t, s, role) ==
    /\ Accept
    /\ IdleSlots # {}
    /\ proc' = [proc EXCEPT ![FreeSlot] =
                  [Scheduled("submit", "admin", t, 0) EXCEPT
                       !.school_id = s, !.role_name = role]]
    /\ UNCHANGED <<teachers, schools, jobs, school_jobs, matches, nextId, applications, faults, last, response>>

\* the teacher exists, and no application of the teacher to the school does
A_Check(p) ==
    /\ proc[p].pc = "start" /\ proc[p].kind = "submit"
    /\ LET r == Begun(proc[p])
       IN  proc' = [proc EXCEPT ![p] =
                IF r.id \notin DOMAIN teachers THEN Ended(r, "HTTP404", 0)
                ELSE IF \E a \in applications :
                            a.teacher_id = r.id /\ a.school_id = r.school_id
                THEN Ended(r, "HTTP400", 0)
                ELSE [r EXCEPT !.pc = "find"]]
    /\ UNCHANGED <<teachers, schools, jobs, school_jobs, matches, nextId, applications, faults, last, requests, response>>

\* teacher_school_matches.select("id").eq(teacher_id).eq(school_id).single()
A_Find(p) ==
    /\ proc[p].pc = "find" /\ proc[p].kind = "submit"
    /\ LET r == proc[p]
           rows == RowsOf(matches, r.id, r.school_id)
       IN  proc' = [proc EXCEPT ![p] =
                [r EXCEPT !.pc = "apply",
                          !.match_id = IF rows = {} THEN 0
                                       ELSE (CHOOSE m \in rows : TRUE).id]]
    /\ UNCHANGED <<teachers, schools, jobs, school_jobs, matches, nextId, applications, faults, last, requests, response>>

\* teacher_school_applications.insert(app_data)
A_InsertApplication(p) ==
    /\ proc[p].pc = "apply" /\ proc[p].kind = "submit"
    /\ LET r == proc[p]
       IN  /\ applications' = applications \cup
                 {[teacher_id |-> r.id, school_id |-> r.school_id,
                   match_id |-> r.match_id, role_name |-> r.role_name]}
           /\ proc' = [proc EXCEPT ![p] =
                 IF r.match_id = 0 THEN Ended(r, "none", 1)
                 ELSE [r EXCEPT !.pc = "mark"]]
    /\ UNCHANGED <<teachers, schools, jobs, school_jobs, matches, nextId, faults, last, requests, response>>

\* teacher_school_matches.update(match_update).eq("id", match_id)
MarkSubmitted(tbl, match_id, role) ==
    {IF m.id = match_id
     THEN (IF role # ""
           THEN [m EXCEPT !.is_submitted = TRUE, !.role_name = role,
                          !.nulls = @ \ {"role_name"}]
           ELSE [m EXCEPT !.is_submitted = TRUE])
     ELSE m : m \in tbl}

A_Mark(p) ==
    /\ proc[p].pc = "mark" /\ proc[p].kind = "submit"
    /\ Written(p, Ended(proc[p], "none", 1),
               MarkSubmitted(matches, proc[p].match_id, proc[p].role_name))
    /\ UNCHANGED <<teachers, schools, jobs, school_jobs, nextId, applications, faults, requests, response>>

(***************************************************************************)
(* The views of the match table: MatchingService.get_teacher_matches,      *)
(* get_teacher_all_matches and the endpoints GET /matching/preview and     *)
(* GET /matching/me.  The store orders rows of equal match_score as it     *)
(* likes, so a view is the set of the lists it can return.                 *)
(***************************************************************************)
DEFAULT_MATCHES_LIMIT == 20
DEFAULT_ALL_LIMIT == 50
PREVIEW_LIMIT == 3

\* .eq("teacher_id", teacher_id).order("match_score", desc=True): every
\* order of the teacher's rows with the scores non-increasing
Ranked(tbl, teacher_id) ==
    LET rows == {r \in tbl : r.teacher_id = teacher_id}
        n == Cardinality(rows)
    IN  {l \in [1..n -> rows] :
            /\ \A i, j \in 1..n : i # j => l[i] # l[j]
            /\ \A i \in 1..n : \A j \in 1..n :
                  i < j => l[i].match_score >= l[j].match_score}

\* .limit(limit), and matches[:3]
Take(l, limit) == IF Len(l) <= limit THEN l ELSE SubSeq(l, 1, limit)

\* the embedded teacher_school_applications row of a match: app_data
AppsOf(r) == {a \in applications : a.match_id = r.id}

\* role_name: that of the application if there is one, else that of the match
DisplayRole(r) ==
    LET own == IF "role_name" \in r.nulls THEN "" ELSE r.role_name
    IN  IF AppsOf(r) = {} THEN own
        ELSE LET a == CHOOSE x \in AppsOf(r) : TRUE
             IN  IF a.role_name # "" THEN a.role_name ELSE own

\* the anonymous format of get_teacher_matches
AnonymousEntry(r) ==
    LET school_data == schools[r.school_id]
    IN  [id |-> r.id, city |-> school_data.city, province |-> school_data.province,
         school_type |-> school_data.school_type, age_groups |-> school_data.age_groups,
         salary_range |-> school_data.salary_range, match_score |-> r.match_score,
         match_reasons |-> r.match_reasons, is_submitted |-> r.is_submitted,
         role_name |-> IF "role_name" \in r.nulls THEN "" ELSE r.role_name]

\* the unified format of a school match
SchoolEntry(r) ==
    LET school_data == schools[r.school_id]
    IN  [id |-> r.id, type |-> "school", city |-> school_data.city,
         province |-> school_data.province, school_type |-> school_data.school_type,
         age_groups |-> school_data.age_groups, subjects |-> <<>>,
         salary_range |-> school_data.salary_range, match_score |-> r.match_score,
         match_reasons |-> r.match_reasons, is_submitted |-> r.is_submitted,
         role_name |-> DisplayRole(r), school_id |-> r.school_id, job_id |-> 0,
         title |-> <<>>, company |-> <<>>, source |-> "manual"]

\* the unified format of a job match; of the job-specific columns the title,
\* the company and the source stand for all that are copied
JobEntry(r) ==
    LET job_data == jobs[r.job_id]
    IN  [id |-> r.id, type |-> "job", city |-> job_data.city,
         province |-> job_data.province, school_type |-> "",
         age_groups |-> job_data.age_groups, subjects |-> job_data.subjects,
         salary_range |-> <<>>, match_score |-> r.match_score,
         match_reasons |-> r.match_reasons, is_submitted |-> r.is_submitted,
         role_name |-> IF DisplayRole(r) # "" THEN DisplayRole(r) ELSE "title",
         school_id |-> 0, job_id |-> r.job_id,
         title |-> job_data.title, company |-> job_data.company,
         source |-> job_data.source]

\* match.get("schools"), match.get("jobs"): the embedded row, when the
\* foreign key is set
HasSchoolData(r) == "school_id" \notin r.nulls /\ r.school_id \in DOMAIN schools

HasJobData(r) == "job_id" \notin r.nulls /\ r.job_id \in DOMAIN jobs

\* the loop of get_teacher_all_matches: a match with neither a school nor a
\* job gives no entry
RECURSIVE Unified(_)
Unified(l) ==
    IF l = <<>> THEN <<>>
    ELSE LET r == Head(l)
         IN  (IF HasSchoolData(r) THEN <<SchoolEntry(r)>>
              ELSE IF HasJobData(r) THEN <<JobEntry(r)>>
              ELSE <<>>) \o Unified(Tail(l))

\* the job matches are left out
get_teacher_all_matches_SchoolsOnly(teacher_id, limit) ==
    {Unified(SelectSeq(Take(l, limit), HasSchoolData)) : l \in Ranked(matches, teacher_id)}

get_teacher_all_matches(teacher_id, limit) ==
    {Unified(Take(l, limit)) : l \in Ranked(matches, teacher_id)}

get_teacher_matches(teacher_id, limit) ==
    {[i \in 1..Len(Take(l, limit)) |-> AnonymousEntry(l[i])] :
        l \in Ranked({r \in matches : HasSchoolData(r)}, teacher_id)}

\* the list is not cut for an unpaid teacher
get_preview_matches_Uncut(teacher_id, has_paid) ==
    get_teacher_all_matches(teacher_id, DEFAULT_ALL_LIMIT)

\* GET /matching/preview
get_preview_matches(teacher_id, has_paid) ==
    IF has_paid THEN get_teacher_all_matches(teacher_id, DEFAULT_ALL_LIMIT)
    ELSE {Take(l, PREVIEW_LIMIT) : l \in get_teacher_all_matches(teacher_id, DEFAULT_ALL_LIMIT)}

\* GET /matching/me: require_payment lets only a paid teacher in
get_my_matches(teacher_id) == get_teacher_all_matches(teacher_id, DEFAULT_ALL_LIMIT)

Returned(op, teacher_id, has_paid, limit, entries) ==
    /\ response' = [op |-> op, teacher_id |-> teacher_id, has_paid |-> has_paid,
                    limit |-> limit, entries |-> entries]
    /\ UNCHANGED <<teachers, schools, jobs, school_jobs, matches, nextId, applications, proc, faults,
                   last, requests>>

GetPreview(t, has_paid) ==
    \E l \in get_preview_matches(t, has_paid) :
        Returned("get_preview_matches", t, has_paid, DEFAULT_ALL_LIMIT, l)

GetMyMatches(t) ==
    \E l \in get_my_matches(t) : Returned("get_my_matches", t, TRUE, DEFAULT_ALL_LIMIT, l)

\* a direct call of the service with a limit of the caller's choice
GetAllMatches(t, limit) ==
    \E l \in get_teacher_all_matches(t, limit) :
        Returned("get_teacher_all_matches", t, TRUE, limit, l)

GetTeacherMatches(t, limit) ==
    \E l \in get_teacher_matches(t, limit) :
        Returned("get_teacher_matches", t, TRUE, limit, l)

(***************************************************************************)
(* The system.  Spec: two invocations at a time, requested by profile and  *)
(* school edits.  SpecSeq: one invocation at a time, requested by the      *)
(* administrator, by a direct call of the service or by an edit, with      *)
(* store writes that can fail.                                             *)
(***************************************************************************)
\* the reasons stored with the initial rows: those of the initial profiles
InitialReasons(t, s) ==
    calculate_match_score(TeacherRow(IF t = 1 THEN BJ ELSE SH),
                          SchoolRow(IF s = 1 THEN BJ ELSE SH)).reasons

\* no read-only call has returned yet
NoResponse == [op |-> "none"]

\* two teachers and two schools, and the match table as a recompute of each
\* teacher leaves it
InitStore ==
    /\ teachers = (1 :> TeacherRow(BJ)) @@ (2 :> TeacherRow(SH))
    /\ schools = (1 :> SchoolRow(BJ)) @@ (2 :> SchoolRow(SH))
    /\ jobs = (1 :> JobRow(BJ))
    /\ school_jobs = <<>>
    /\ matches = {NewMatchRow(1, 1, 1, 7450, InitialReasons(1, 1)),
                  NewMatchRow(2, 2, 2, 7450, InitialReasons(2, 2))}
    /\ nextId = 3
    /\ applications = {}
    /\ faults = 0
    /\ last = NoLast
    /\ requests = 0
    /\ response = NoResponse

Init == InitStore /\ proc = [p \in 1..MaxProcs |-> Idle]

InitSeq == InitStore /\ proc = [p \in {1} |-> Idle]

Step(p) ==
    \/ T_ReadTeacher(p)
    \/ T_ReadSchools(p)
    \/ T_Delete(p)
    \/ T_Insert(p)
    \/ S_ReadSchool(p)
    \/ S_ReadTeachers(p)
    \/ S_Pair(p)

LocationUpdates ==
    {[fields |-> {"preferred_location"}, preferred_location |-> c] : c \in Cities}

CityUpdates == {[fields |-> {"city"}, city |-> Lower(c)] : c \in Cities}

Next ==
    \/ \E p \in DOMAIN proc : Step(p)
    \/ \E p \in DOMAIN proc : Release(p)
    \/ \E t \in TeacherIds, upd \in LocationUpdates : update_teacher_profile(t, upd)
    \/ \E s \in SchoolIds, upd \in CityUpdates : update_school(s, upd)

Spec == Init /\ [][Next]_vars

SubmitStep(p) ==
    \/ A_Check(p)
    \/ A_Find(p)
    \/ A_InsertApplication(p)
    \/ A_Mark(p)

NextSeq ==
    \/ \E p \in DOMAIN proc : Step(p)
    \/ \E p \in DOMAIN proc : SubmitStep(p)
    \/ \E p \in DOMAIN proc : StoreWriteFails(p)
    \/ \E p \in DOMAIN proc : Release(p)
    \/ \E t \in TeacherIds, upd \in TeacherUpdates : update_teacher_profile(t, upd)
    \/ \E s \in SchoolIds, upd \in SchoolUpdates : update_school(s, upd)
    \/ \E t \in TeacherIds \cup {MissingId} : AdminRunMatching(t)
    \/ \E id \in TeacherIds, m \in MinScores : ServiceCall("teacher", id, m)
    \/ \E id \in SchoolIds \cup {MissingId}, m \in MinScores : ServiceCall("school", id, m)
    \/ ServiceCall("job", MissingId, DEFAULT_MIN_SCORE)
    \/ \E p \in DOMAIN proc : J_ReadJob(p)
    \/ \E t \in TeacherIds, s \in SchoolIds, role \in RoleNames :
          submit_applications(t, s, role)

SpecSeq == InitSeq /\ [][NextSeq]_vars


(***************************************************************************)
(* SpecJobs: the recomputes against external jobs next to the recompute of *)
(* a teacher against the schools, called directly.                         *)
(***************************************************************************)
JobStep(p) ==
    \/ J_ReadJob(p)
    \/ J_ReadTeachers(p)
    \/ J_Pair(p)
    \/ J_Write(p)
    \/ TJ_ReadTeacher(p)
    \/ TJ_ReadJobs(p)
    \/ TJ_Pair(p)
    \/ TJ_Write(p)

NextJobs ==
    \/ \E p \in DOMAIN proc : Step(p)
    \/ \E p \in DOMAIN proc : JobStep(p)
    \/ \E p \in DOMAIN proc : Release(p)
    \/ \E t \in TeacherIds : ServiceCall("teacher", t, DEFAULT_MIN_SCORE)
    \/ \E t \in TeacherIds, m \in MinScores : ServiceCall("teacher_jobs", t, m)
    \/ \E j \in JobIds, m \in MinScores : ServiceCall("job", j, m)

SpecJobs == Init /\ [][NextJobs]_vars

(***************************************************************************)
(* SpecCreate: sign-ups, new schools and edits, one invocation at a time.  *)
(***************************************************************************)
NextCreate ==
    \/ \E p \in DOMAIN proc : Step(p)
    \/ \E p \in DOMAIN proc : Release(p)
    \/ \E c \in Cities : create_teacher(c)
    \/ \E c \in Cities : create_teacher_profile_signup(c)
    \/ \E c \in Cities, a \in BOOLEAN : create_school(c, a)
    \/ \E t \in DOMAIN teachers, upd \in TeacherUpdates : update_teacher_profile(t, upd)
    \/ \E s \in DOMAIN schools, upd \in SchoolUpdates : update_school(s, upd)

SpecCreate == InitSeq /\ [][NextCreate]_vars

(***************************************************************************)
(* SpecView: the views over the match tables a teacher can hold.  Teacher  *)
(* 1 holds any of a row for each of three schools and a row for the job,   *)
(* as runs with a low threshold store them; schools 1 and 2 differ in name *)
(* and id only.  The row for school 1 may be submitted.                    *)
(***************************************************************************)
ViewSchools ==
    (1 :> [SchoolRow(BJ) EXCEPT !.name = <<"A">>])
        @@ (2 :> [SchoolRow(BJ) EXCEPT !.name = <<"B">>])
        @@ (3 :> [SchoolRow(SH) EXCEPT !.name = <<"C">>])

ViewSchoolMatch(loc, s) ==
    LET result == calculate_match_score(TeacherRow(loc), ViewSchools[s])
    IN  NewMatchRow(s, 1, s, result.score, result.reasons)

ViewJobMatch(loc) ==
    LET result == calculate_job_match_score(TeacherRow(loc), JobRow(BJ))
    IN  NewJobMatchRow(4, 1, 1, result.score, result.reasons)

InitView ==
    /\ \E loc \in Cities, held \in SUBSET (1..4), submitted \in BOOLEAN :
          /\ submitted => 1 \in held
          /\ teachers = (1 :> TeacherRow(loc)) @@ (2 :> TeacherRow(SH))
          /\ matches =
                {[ViewSchoolMatch(loc, s) EXCEPT !.is_submitted = (s = 1 /\ submitted)] :
                    s \in held \ {4}}
                \cup {ViewJobMatch(loc) : j \in held \cap {4}}
                \cup {NewMatchRow(5, 2, 3, 7450, InitialReasons(2, 2))}
          /\ applications =
                IF submitted
                THEN {[teacher_id |-> 1, school_id |-> 1, match_id |-> 1, role_name |-> "maths"]}
                ELSE {}
    /\ schools = ViewSchools
    /\ jobs = (1 :> JobRow(BJ))
    /\ school_jobs = <<>>
    /\ nextId = 6
    /\ faults = 0
    /\ last = NoLast
    /\ requests = 0
    /\ response = NoResponse
    /\ proc = [p \in {1} |-> Idle]

NextView ==
    \/ \E t \in DOMAIN teachers, has_paid \in BOOLEAN : GetPreview(t, has_paid)
    \/ \E t \in DOMAIN teachers : GetMyMatches(t)
    \/ \E t \in DOMAIN teachers, limit \in {SmallLimit, DEFAULT_ALL_LIMIT} : GetAllMatches(t, limit)
    \/ \E t \in DOMAIN teachers, limit \in {SmallLimit, DEFAULT_MATCHES_LIMIT} : GetTeacherMatches(t, limit)

SpecView == InitView /\ [][NextView]_vars

(***************************************************************************)
(* SpecScore: the scoring functions applied to the profiles and the        *)
(* opportunities of bounded sets; response holds the arguments and the     *)
(* value of the last call.                                                 *)
(***************************************************************************)
\* str(n) of a number below 100
DigitChar(d) == CHOOSE c \in {"0", "1", "2", "3", "4", "5", "6", "7", "8", "9"} : DigitVal(c) = d

Str(n) == IF n < 10 THEN <<DigitChar(n)>> ELSE <<DigitChar(n \div 10), DigitChar(n % 10)>>

\* the requirement texts "a-b years" and "n+ years"
RangeText(a, b) == Str(a) \o <<"-">> \o Str(b) \o <<" ", "y", "e", "a", "r", "s">>

OpenText(n) == Str(n) \o <<"+", " ", "y", "e", "a", "r", "s">>

HB == <<"h", "b">>

ScoreLocations == {<<>>, SH, HB, SH \o <<",", " ">> \o BJ}

ScoreSubjects == {<<>>, <<"m", "a">>, <<"E", "N", ",", "m", "a">>}

ScoreSubjectLists == {<<>>, << <<"e", "n">>, <<"m", "a">> >>, << <<"E", "N">>, <<"e", "n">> >>}

ScoreAgeGroups == {<<>>, <<"p">>}

ScoreAgeGroupLists == {<<>>, << <<"P">>, <<"s">> >>}

ScoreYears == {Str(0), Str(3), Str(MaxYears)}

ScoreRequirements == {<<>>, RangeText(3, 5), OpenText(5), RangeText(MaxRequired, MaxRequired + 2), <<"a", "n", "y">>}

ScoreTeacher(loc, sub, ag, ye, hc) ==
    [TeacherRow(loc) EXCEPT !.subject_specialty = sub, !.preferred_age_group = ag,
                            !.years_experience = ye, !.has_chinese = hc]

\* a province column: a text, or NULL
ScoreProvinces == {[v |-> HB, null |-> FALSE], [v |-> <<>>, null |-> FALSE], [v |-> <<>>, null |-> TRUE]}

ScoreSchool(city, prov, subs, ags, req, cr) ==
    [SchoolRow(city) EXCEPT !.province = prov.v,
                          !.nulls = IF prov.null THEN {"province"} ELSE {},
                          !.subjects_needed = subs, !.age_groups = ags,
                          !.experience_required = req, !.chinese_required = cr]

ScoreJob(city, prov, subs, ags, req, cr) ==
    [JobRow(city) EXCEPT !.province = prov.v,
                       !.nulls = IF prov.null THEN {"province"} ELSE {},
                       !.subjects = subs, !.age_groups = ags,
                       !.experience = req, !.chinese_required = cr]

\* the calls to make: response holds the arguments of a call until the call
\* is made, and its value after
\* a posting of a school account (school_jobs)
ScoreSchoolJob(city, prov, subs, ags, req, cr) ==
    [city |-> Lower(city), province |-> prov.v, subjects |-> subs, age_groups |-> ags,
     experience_required |-> req, chinese_required |-> cr,
     nulls |-> IF prov.null THEN {"province"} ELSE {}]

InitScore ==
    /\ teachers = (1 :> TeacherRow(BJ)) @@ (2 :> TeacherRow(SH))
    /\ schools = (1 :> SchoolRow(BJ)) @@ (2 :> SchoolRow(SH))
    /\ jobs = (1 :> JobRow(BJ))
    /\ school_jobs = <<>>
    /\ matches = {}
    /\ nextId = 1
    /\ applications = {}
    /\ faults = 0
    /\ last = NoLast
    /\ requests = 0
    /\ proc = [p \in {1} |-> Idle]
    /\ \/ \E loc \in ScoreLocations, sub \in ScoreSubjects, ag \in ScoreAgeGroups,
             ye \in ScoreYears, hc \in BOOLEAN, city \in {BJ},
             prov \in ScoreProvinces, subs \in ScoreSubjectLists, ags \in ScoreAgeGroupLists,
             req \in ScoreRequirements, cr \in BOOLEAN, fn \in {"school", "job", "school_job"} :
               response = [op |-> "call", fn |-> fn,
                           teacher |-> ScoreTeacher(loc, sub, ag, ye, hc),
                           school |-> ScoreSchool(city, prov, subs, ags, req, cr),
                           job |-> ScoreJob(city, prov, subs, ags, req, cr),
                           school_job |-> ScoreSchoolJob(city, prov, subs, ags, req, cr)]
       \/ \E y \in 0..MaxYears, a \in 0..MaxRequired, b \in 0..MaxRequired, e \in BOOLEAN :
             /\ a <= b
             /\ response = [op |-> "call", fn |-> "range", teacher_years |-> y,
                            min_years |-> a, max_years |-> b, required_empty |-> e]
       \/ \E y \in 0..MaxYears, n \in 0..(MaxRequired + MaxRequired) :
             response = [op |-> "call", fn |-> "open", teacher_years |-> y, min_years |-> n]

Scored(fn, r) ==
    /\ response.op = "call" /\ response.fn = fn
    /\ response' = r
    /\ UNCHANGED <<teachers, schools, jobs, school_jobs, matches, nextId, applications, proc, faults,
                   last, requests>>

ScoreMatch ==
    Scored("school",
           [op |-> "calculate_match_score", teacher |-> response.teacher,
            school |-> response.school,
            result |-> calculate_match_score(response.teacher, response.school)])

ScoreJobMatch ==
    Scored("job",
           [op |-> "calculate_job_match_score", teacher |-> response.teacher,
            job |-> response.job,
            result |-> calculate_job_match_score(response.teacher, response.job)])

ScoreSchoolJobMatch ==
    Scored("school_job",
           [op |-> "calculate_school_job_match_score", teacher |-> response.teacher,
            job |-> response.school_job,
            result |-> calculate_school_job_match_score(response.teacher, response.school_job)])

\* calculate_experience_score(y, "a-b years"), and with no requirement
ScoreExperience ==
    Scored("range",
           [op |-> "calculate_experience_score", form |-> "range",
            teacher_years |-> response.teacher_years,
            min_years |-> response.min_years, max_years |-> response.max_years,
            required_empty |-> response.required_empty,
            score |-> calculate_experience_score(response.teacher_years,
                          IF response.required_empty THEN <<>>
                          ELSE RangeText(response.min_years, response.max_years),
                          response.required_empty)])

\* calculate_experience_score(y, "n+ years")
ScoreOpenExperience ==
    Scored("open",
           [op |-> "calculate_experience_score", form |-> "open",
            teacher_years |-> response.teacher_years,
            min_years |-> response.min_years, max_years |-> NO_UPPER_BOUND,
            required_empty |-> FALSE,
            score |-> calculate_experience_score(response.teacher_years,
                          OpenText(response.min_years), FALSE)])

NextScore ==
    \/ ScoreMatch
    \/ ScoreJobMatch
    \/ ScoreSchoolJobMatch
    \/ ScoreExperience
    \/ ScoreOpenExperience

SpecScore == InitScore /\ [][NextScore]_vars

(***************************************************************************)
(* SpecParts: the sub-score functions applied to arguments of bounded      *)
(* sets, as calculate_match_score (kind "school") and                      *)
(* calculate_job_match_score (kind "job") pass them.                       *)
(***************************************************************************)
\* preferred_location texts: none, the city, another city, the province, a
\* part of the province, a text the province is part of, and two cities
PartLocations == {<<>>, BJ, SH, HB, <<"h">>, HB \o <<"x">>, SH \o <<",", " ">> \o BJ}

PartCities == {<<"b", "j">>, <<"B", "j">>}

\* school.get('province', '') is None for a NULL column; job.get('province', '') or ''
ProvinceArg(kind, prov) ==
    IF kind = "job" /\ prov.null THEN [v |-> <<>>, null |-> FALSE] ELSE prov

\* subject_specialty / preferred_age_group texts, and the lists a school or a
\* job holds: empty, in other case, repeated, and with a blank around a token
PartTexts == {<<>>, <<"m", "a">>, <<"M", "a", ",", " ", "s", "c">>, <<"s", "c">>, <<" ", "e", "n", " ", ",", "m", "a">>}

PartLists == {<<>>, << <<"m", "a">> >>, << <<"m", "a">>, <<"e", "n">> >>, << <<"E", "N">>, <<"e", "n">> >>, << <<"m", "a", " ">> >>}

PartStore ==
    /\ teachers = (1 :> TeacherRow(BJ)) @@ (2 :> TeacherRow(SH))
    /\ schools = (1 :> SchoolRow(BJ)) @@ (2 :> SchoolRow(SH))
    /\ jobs = (1 :> JobRow(BJ))
    /\ school_jobs = <<>>
    /\ matches = {}
    /\ nextId = 1
    /\ applications = {}
    /\ faults = 0
    /\ last = NoLast
    /\ requests = 0
    /\ proc = [p \in {1} |-> Idle]

InitParts ==
    /\ PartStore
    /\ \/ \E kind \in {"school", "job"}, loc \in PartLocations, city \in PartCities,
             prov \in ScoreProvinces :
               response = [op |-> "call", fn |-> "location", kind |-> kind,
                           preferred_location |-> loc, city |-> city, province |-> prov]
       \/ \E fn \in {"subject", "age_group"}, text \in PartTexts, list \in PartLists :
             response = [op |-> "call", fn |-> fn, text |-> text, list |-> list]

PartLocation ==
    Scored("location",
           [op |-> "calculate_location_score", kind |-> response.kind,
            preferred_location |-> response.preferred_location,
            city |-> response.city, province |-> response.province,
            result |-> calculate_location_score(
                          parse_comma_separated(
                              [preferred_location |-> response.preferred_location, nulls |-> {}],
                              "preferred_location"),
                          response.city,
                          ProvinceArg(response.kind, response.province).v,
                          ProvinceArg(response.kind, response.province).null)])

\* teacher_subjects is parse_comma_separated of the teacher's text;
\* school_subjects is the school's list as stored
PartSubject ==
    Scored("subject",
           [op |-> "calculate_subject_score", text |-> response.text, list |-> response.list,
            score |-> calculate_subject_score(
                          parse_comma_separated([text |-> response.text, nulls |-> {}], "text"),
                          response.list)])

PartAgeGroup ==
    Scored("age_group",
           [op |-> "calculate_age_group_score", text |-> response.text, list |-> response.list,
            score |-> calculate_age_group_score(
                          parse_comma_separated([text |-> response.text, nulls |-> {}], "text"),
                          response.list)])

NextParts ==
    \/ PartLocation
    \/ PartSubject
    \/ PartAgeGroup

SpecParts == InitParts /\ [][NextParts]_vars

(***************************************************************************)
(* SpecMalformed: school 2 holds an experience requirement that cannot be  *)
(* parsed.  The recomputes run over it, and calculate_experience_score is  *)
(* called with such texts.                                                 *)
(***************************************************************************)
\* "3-", "a-b years", "-", "3-5years" and "any"
MalformedTexts ==
    {<<"3", "-">>, <<"a", "-", "b", " ", "y", "e", "a", "r", "s">>, <<"-">>,
     <<"3", "-", "5", "y", "e", "a", "r", "s">>, <<"a", "n", "y">>}

MalformedSchool(text) == [SchoolRow(SH) EXCEPT !.experience_required = text]

\* the match table as a recompute of each teacher leaves it
InitMalformed ==
    /\ \E text \in MalformedTexts, y \in {0, MaxYears} :
          /\ response = [op |-> "call", fn |-> "malformed", teacher_years |-> y, text |-> text]
          /\ schools = (1 :> SchoolRow(BJ)) @@ (2 :> MalformedSchool(text))
          /\ LET first == calculate_match_score(TeacherRow(BJ), SchoolRow(BJ))
                 second == calculate_match_score(TeacherRow(SH), MalformedSchool(text))
             IN  matches = {NewMatchRow(1, 1, 1, first.score, first.reasons),
                            NewMatchRow(2, 2, 2, second.score, second.reasons)}
    /\ teachers = (1 :> TeacherRow(BJ)) @@ (2 :> TeacherRow(SH))
    /\ jobs = (1 :> JobRow(BJ))
    /\ school_jobs = <<>>
    /\ nextId = 3
    /\ applications = {}
    /\ faults = 0
    /\ last = NoLast
    /\ requests = 0
    /\ proc = [p \in {1} |-> Idle]

ScoreMalformed ==
    Scored("malformed",
           [op |-> "calculate_experience_score", form |-> "malformed",
            teacher_years |-> response.teacher_years, text |-> response.text,
            score |-> calculate_experience_score(response.teacher_years, response.text, FALSE)])

NextMalformed ==
    \/ \E p \in DOMAIN proc : Step(p)
    \/ \E p \in DOMAIN proc : Release(p)
    \/ \E s \in SchoolIds, upd \in SchoolUpdates : update_school(s, upd)
    \/ \E t \in TeacherIds : AdminRunMatching(t)
    \/ \E id \in TeacherIds, m \in MinScores : ServiceCall("teacher", id, m)
    \/ \E id \in SchoolIds, m \in MinScores : ServiceCall("school", id, m)
    \/ ScoreMalformed

SpecMalformed == InitMalformed /\ [][NextMalformed]_vars

(***************************************************************************)
(* SpecInactive: school 2 and job 1 may have been deactivated after their  *)
(* rows were stored; the recomputes of schools, jobs and teachers run one  *)
(* at a time, and schools are edited.                                      *)
(***************************************************************************)
InitInactive ==
    /\ \E school_active \in BOOLEAN, job_active \in BOOLEAN :
          /\ schools = (1 :> SchoolRow(BJ))
                          @@ (2 :> [SchoolRow(SH) EXCEPT !.is_active = school_active])
          /\ jobs = (1 :> [JobRow(BJ) EXCEPT !.is_active = job_active])
          /\ school_jobs = <<>>
    /\ teachers = (1 :> TeacherRow(BJ)) @@ (2 :> TeacherRow(SH))
    /\ LET job == calculate_job_match_score(TeacherRow(BJ), JobRow(BJ))
       IN  matches = {NewMatchRow(1, 1, 1, 7450, InitialReasons(1, 1)),
                      NewMatchRow(2, 2, 2, 7450, InitialReasons(2, 2)),
                      NewJobMatchRow(3, 1, 1, job.score, job.reasons)}
    /\ nextId = 4
    /\ applications = {}
    /\ faults = 0
    /\ last = NoLast
    /\ requests = 0
    /\ response = NoResponse
    /\ proc = [p \in {1} |-> Idle]

NextInactive ==
    \/ \E p \in DOMAIN proc : Step(p)
    \/ \E p \in DOMAIN proc : JobStep(p)
    \/ \E p \in DOMAIN proc : Release(p)
    \/ \E s \in SchoolIds, upd \in SchoolUpdates : update_school(s, upd)
    \/ \E t \in TeacherIds : ServiceCall("teacher", t, DEFAULT_MIN_SCORE)
    \/ \E id \in SchoolIds, m \in MinScores : ServiceCall("school", id, m)
    \/ \E j \in JobIds, m \in MinScores : ServiceCall("job", j, m)

SpecInactive == InitInactive /\ [][NextInactive]_vars

(***************************************************************************)
(* SpecEdit: the handlers of update_teacher_profile, update_school and     *)
(* create_school step by step: the store write, the test of its result,    *)
(* and add_task.  The task runs after the handler has returned, so the     *)
(* slot of the handler becomes the slot of the recompute.  edit is the     *)
(* edit of the handler: its request body, whether its write has been       *)
(* done, the row before the write (old) and the row as the last write to   *)
(* it left it (stored), newer telling that a later write has come.         *)
(***************************************************************************)
EditFns == {"update_teacher_profile", "update_school", "create_school"}

TargetKind(fn) == IF fn = "update_teacher_profile" THEN "teacher" ELSE "school"

\* the bodies of POST /schools
SchoolCreates ==
    {[fields |-> {}, city |-> c, is_active |-> TRUE] : c \in {SH}}

\* the handler is entered
EditRequest(fn, id, upd) ==
    /\ Accept
    /\ IdleSlots # {}
    /\ proc' = [proc EXCEPT ![FreeSlot] =
                  [Idle EXCEPT !.pc = "edit", !.kind = fn, !.id = id,
                               !.edit = <<[fn |-> fn, upd |-> upd, written |-> FALSE,
                                           newer |-> FALSE, old |-> <<>>,
                                           stored |-> <<>>]>>]]
    /\ UNCHANGED <<teachers, schools, jobs, school_jobs, matches, nextId, applications, faults, last, response>>

\* a write to the row id of a table reaches the edits whose recompute has
\* not read that row yet
Overwritten(pr, kind, id, row) ==
    [q \in DOMAIN pr |->
        IF /\ pr[q].edit # <<>>
           /\ pr[q].pc \in {"edited", "start"}
           /\ TargetKind(pr[q].edit[1].fn) = kind
           /\ pr[q].id = id
        THEN [pr[q] EXCEPT !.edit[1].newer = TRUE, !.edit[1].stored = <<row>>]
        ELSE pr[q]]

\* the handler after its write of row to the row id
Edited(r, id, old, row) ==
    [r EXCEPT !.pc = "edited", !.id = id, !.edit[1].written = TRUE,
              !.edit[1].old = old, !.edit[1].stored = <<row>>]

\* table.update(update_dict).eq("id", id).execute() and
\* schools.insert(school_data).execute() with data in the response
EditWrite(p) ==
    /\ proc[p].pc = "edit"
    /\ LET r == proc[p]
           e == r.edit[1]
       IN  \/ /\ e.fn = "update_teacher_profile"
              /\ r.id \in DOMAIN teachers
              /\ LET row == ApplyUpdate(teachers[r.id], e.upd)
                 IN  /\ teachers' = [teachers EXCEPT ![r.id] = row]
                     /\ proc' = [Overwritten(Disturb(proc, p), "teacher", r.id, row)
                                   EXCEPT ![p] = Edited(r, r.id, <<teachers[r.id]>>, row)]
              /\ UNCHANGED schools
           \/ /\ e.fn = "update_school"
              /\ r.id \in DOMAIN schools
              /\ LET row == ApplyUpdate(schools[r.id], e.upd)
                 IN  /\ schools' = [schools EXCEPT ![r.id] = row]
                     /\ proc' = [Overwritten(Disturb(proc, p), "school", r.id, row)
                                   EXCEPT ![p] = Edited(r, r.id, <<schools[r.id]>>, row)]
              /\ UNCHANGED teachers
           \/ /\ e.fn = "create_school"
              /\ LET row == [SchoolRow(e.upd.city) EXCEPT !.is_active = e.upd.is_active]
                     id == NewRowId(schools)
                 IN  /\ schools' = schools @@ (id :> row)
                     /\ proc' = [Disturb(proc, p) EXCEPT ![p] = Edited(r, id, <<>>, row)]
              /\ UNCHANGED teachers
    /\ last' = NoLast
    /\ UNCHANGED <<jobs, school_jobs, matches, nextId, applications, faults, requests, response>>

\* the write raises APIError, or the update matches no row and the handler
\* raises HTTPException on the empty response.data
EditWriteFails(p) ==
    /\ proc[p].pc = "edit"
    /\ LET r == proc[p]
           e == r.edit[1]
       IN  \/ /\ faults < MaxFaults
              /\ faults' = faults + 1
              /\ proc' = [proc EXCEPT ![p] =
                            [r EXCEPT !.pc = "done", !.exc = "APIError",
                                      !.outcome = "500"]]
           \/ /\ e.fn = "update_school" /\ r.id \notin DOMAIN schools
              /\ faults' = faults
              /\ proc' = [proc EXCEPT ![p] =
                            [r EXCEPT !.pc = "done", !.exc = "HTTPException",
                                      !.outcome = "404"]]
    /\ UNCHANGED <<teachers, schools, jobs, school_jobs, matches, nextId, applications, last, requests, response>>

\* the fields of the edit call for a recompute
EditAddsTask(e) ==
    IF e.fn = "create_school" THEN TRUE
    ELSE IF e.fn = "update_school" THEN e.upd.fields \cap MATCHING_FIELDS # {}
    ELSE e.upd.fields \cap PREFERENCE_FIELDS # {}

\* add_task is called before the write
EditSchedule_BeforeWrite(p) ==
    /\ proc[p].pc \in {"edit", "edited"}
    /\ proc[p].kind # "create_school"
    /\ EditAddsTask(proc[p].edit[1])
    /\ proc' = [proc EXCEPT ![p] =
                  [Scheduled(TargetKind(proc[p].kind), "background", proc[p].id,
                             DEFAULT_MIN_SCORE) EXCEPT !.edit = proc[p].edit]]
    /\ UNCHANGED <<teachers, schools, jobs, school_jobs, matches, nextId, applications, faults, last, requests, response>>

\* the lines after the test of response.data: add_task when the fields call
\* for it, and the handler returns
EditSchedule(p) ==
    /\ proc[p].pc = "edited"
    /\ proc' = [proc EXCEPT ![p] =
                  IF EditAddsTask(proc[p].edit[1])
                  THEN [Scheduled(TargetKind(proc[p].kind), "background", proc[p].id,
                                  DEFAULT_MIN_SCORE) EXCEPT !.edit = proc[p].edit]
                  ELSE Idle]
    /\ UNCHANGED <<teachers, schools, jobs, school_jobs, matches, nextId, applications, faults, last, requests, response>>

InitEdit == InitStore /\ proc = [p \in {1, 2} |-> Idle]

NextEdit ==
    \/ \E t \in {1}, upd \in TeacherUpdates :
          EditRequest("update_teacher_profile", t, upd)
    \/ \E s \in {2, MissingId}, upd \in SchoolUpdates :
          EditRequest("update_school", s, upd)
    \/ \E upd \in SchoolCreates : EditRequest("create_school", 0, upd)
    \/ \E p \in DOMAIN proc : EditWrite(p)
    \/ \E p \in DOMAIN proc : EditWriteFails(p)
    \/ \E p \in DOMAIN proc : EditSchedule(p)
    \/ \E p \in DOMAIN proc : Step(p)
    \/ \E p \in DOMAIN proc : Release(p)

SpecEdit == InitEdit /\ [][NextEdit]_vars

(***************************************************************************)
(* SpecSchoolJobs: the job postings of a school account.  The handlers of  *)
(* POST /school-jobs and PATCH /school-jobs/{job_id} make their store      *)
(* calls one by one, and the requests are served by a worker pool with no  *)
(* lock between them, so the calls of two requests interleave.             *)
(***************************************************************************)
\* a row of school_jobs
SchoolJobRow(account, is_active) ==
    [school_account_id |-> account, is_active |-> is_active, title |-> <<"T">>]

\* the row of the account in school_accounts
school_accounts == (1 :> [max_active_jobs |-> 1])

AccountIds == DOMAIN school_accounts

get_school_active_job_count(tbl, school_account_id) ==
    Cardinality({j \in DOMAIN tbl : /\ tbl[j].school_account_id = school_account_id
                                    /\ tbl[j].is_active})

get_school_max_jobs(school_account_id) ==
    IF school_account_id \in DOMAIN school_accounts
    THEN school_accounts[school_account_id].max_active_jobs
    ELSE 5

\* the bodies of POST /school-jobs and of PATCH /school-jobs/{job_id}
SchoolJobBodies ==
    {[fields |-> {"is_active"}, is_active |-> b] : b \in BOOLEAN}

SchoolJobUpdates ==
    SchoolJobBodies \cup {[fields |-> {"title"}, title |-> <<"U">>]}

\* the handler fn of the account is entered
SchoolJobRequest(fn, account, job_id, body) ==
    /\ Accept
    /\ IdleSlots # {}
    /\ proc' = [proc EXCEPT ![FreeSlot] =
                  [Idle EXCEPT !.pc = IF fn = "create_school_job" THEN "sj_check"
                                      ELSE "sj_existing",
                               !.kind = fn, !.id = job_id, !.school_id = account,
                               !.edit = <<body>>]]
    /\ UNCHANGED <<teachers, schools, jobs, school_jobs, matches, nextId, applications, faults, last, response>>

\* the handler ends with the status code
Answered(r, code) == [r EXCEPT !.pc = "done", !.outcome = code]

\* update_school_job: select("id, is_active").eq("id", job_id)
\* .eq("school_account_id", school["id"]).single()
SJ_Existing(p) ==
    /\ proc[p].pc = "sj_existing"
    /\ LET r == proc[p]
       IN  proc' = [proc EXCEPT ![p] =
                IF r.id \in DOMAIN school_jobs
                   /\ school_jobs[r.id].school_account_id = r.school_id
                THEN [r EXCEPT !.pc = "sj_check", !.row = <<school_jobs[r.id]>>,
                               !.found = TRUE]
                ELSE Answered(r, "404")]
    /\ UNCHANGED <<teachers, schools, jobs, school_jobs, matches, nextId, applications, faults, last, requests, response>>

\* the request would add an active posting
Activates(r) ==
    LET body == r.edit[1]
    IN  /\ "is_active" \in body.fields
        /\ body.is_active
        /\ r.kind = "update_school_job" => ~r.row[1].is_active

\* the limit test of both handlers: the count of the active postings is read
\* and compared with max_active_jobs
SJ_Check(p) ==
    /\ proc[p].pc = "sj_check"
    /\ LET r == proc[p]
           active_count == get_school_active_job_count(school_jobs, r.school_id)
           max_jobs == get_school_max_jobs(r.school_id)
       IN  proc' = [proc EXCEPT ![p] =
                IF Activates(r) /\ active_count >= max_jobs
                THEN Answered([r EXCEPT !.count = active_count], "403")
                ELSE [r EXCEPT !.pc = "sj_write", !.count = active_count]]
    /\ UNCHANGED <<teachers, schools, jobs, school_jobs, matches, nextId, applications, faults, last, requests, response>>

\* school_jobs.insert(job_dict) and school_jobs.update(update_dict).eq("id", job_id)
SJ_Write(p) ==
    /\ proc[p].pc = "sj_write"
    /\ LET r == proc[p]
           body == r.edit[1]
       IN  IF r.kind = "create_school_job"
           THEN /\ school_jobs' = school_jobs @@
                      (NewRowId(school_jobs) :> SchoolJobRow(r.school_id, body.is_active))
                /\ proc' = [proc EXCEPT ![p] = Answered(r, "201")]
           ELSE /\ school_jobs' =
                      [school_jobs EXCEPT ![r.id] =
                          IF "is_active" \in body.fields
                          THEN [@ EXCEPT !.is_active = body.is_active]
                          ELSE [@ EXCEPT !.title = body.title]]
                /\ proc' = [proc EXCEPT ![p] = Answered(r, "200")]
    /\ UNCHANGED <<teachers, schools, jobs, matches, nextId, applications, faults, last, requests, response>>

\* one account with an inactive posting, and two workers
InitSchoolJobs ==
    /\ teachers = (1 :> TeacherRow(BJ)) @@ (2 :> TeacherRow(SH))
    /\ schools = (1 :> SchoolRow(BJ)) @@ (2 :> SchoolRow(SH))
    /\ jobs = (1 :> JobRow(BJ))
    /\ school_jobs = (1 :> SchoolJobRow(1, FALSE))
    /\ matches = {}
    /\ nextId = 1
    /\ applications = {}
    /\ faults = 0
    /\ last = NoLast
    /\ requests = 0
    /\ response = NoResponse
    /\ proc = [p \in {1, 2} |-> Idle]

NextSchoolJobs ==
    \/ \E a \in AccountIds, body \in SchoolJobBodies :
          SchoolJobRequest("create_school_job", a, 0, body)
    \/ \E a \in AccountIds, j \in 1..2, body \in SchoolJobUpdates :
          SchoolJobRequest("update_school_job", a, j, body)
    \/ \E p \in DOMAIN proc : SJ_Existing(p)
    \/ \E p \in DOMAIN proc : SJ_Check(p)
    \/ \E p \in DOMAIN proc : SJ_Write(p)
    \/ \E p \in DOMAIN proc : Release(p)

SpecSchoolJobs == InitSchoolJobs /\ [][NextSchoolJobs]_vars

(***************************************************************************)
(* SpecRepeat: the same scoring call made twice, each time by a worker of  *)
(* the pool.  The reasons name the matching tokens by ', '.join over a set *)
(* of str, whose iteration order follows the hashes of the strings; these  *)
(* are salted per interpreter process, so the order is fixed inside one    *)
(* worker and may differ between two.  seeds are the salts of the workers  *)
(* that serve the first and the second call.                               *)
(***************************************************************************)
HashSeeds == {0, 1}

\* the iteration order of a set under a hash seed
RECURSIVE SetOrder(_, _)
SetOrder(S, seed) ==
    IF S = {} THEN <<>>
    ELSE LET x == CHOOSE y \in S : TRUE
         IN  IF seed = 0 THEN <<x>> \o SetOrder(S \ {x}, seed)
             ELSE SetOrder(S \ {x}, seed) \o <<x>>

\* ', '.join(tokens)
RECURSIVE Join(_)
Join(tokens) ==
    IF tokens = <<>> THEN <<>>
    ELSE IF Len(tokens) = 1 THEN Head(tokens)
    ELSE Head(tokens) \o <<",", " ">> \o Join(Tail(tokens))

\* the reason as the worker with the seed writes it
ReasonText(reason, seed) ==
    IF reason.kind \in {"Subject match", "Age group match"}
    THEN [kind |-> reason.kind, what |-> Join(SetOrder(reason.what, seed))]
    ELSE reason

\* the value of a scoring call made by the worker with the seed
ResultOn(result, seed) ==
    IF ~result.ok THEN result
    ELSE [result EXCEPT !.reasons = [i \in 1..Len(@) |-> ReasonText(@[i], seed)]]

RepeatTexts == {<<"m", "a">>, <<"m", "a", ",", "e", "n">>}

RepeatLists == {<< <<"m", "a">> >>, << <<"m", "a">>, <<"e", "n">> >>}

InitRepeat ==
    /\ teachers = (1 :> TeacherRow(BJ)) @@ (2 :> TeacherRow(SH))
    /\ schools = (1 :> SchoolRow(BJ)) @@ (2 :> SchoolRow(SH))
    /\ jobs = (1 :> JobRow(BJ))
    /\ school_jobs = <<>>
    /\ matches = {}
    /\ nextId = 1
    /\ applications = {}
    /\ faults = 0
    /\ last = NoLast
    /\ requests = 0
    /\ proc = [p \in {1} |-> Idle]
    /\ \E loc \in Cities, sub \in RepeatTexts, ag \in RepeatTexts, city \in {BJ},
          subs \in RepeatLists, ags \in RepeatLists, fn \in {"school", "job"},
          first \in HashSeeds, second \in HashSeeds :
            response = [op |-> "repeat", fn |-> fn,
                        teacher |-> ScoreTeacher(loc, sub, ag, <<"3">>, FALSE),
                        school |-> ScoreSchool(city, [v |-> HB, null |-> FALSE], subs, ags,
                                               <<>>, FALSE),
                        job |-> ScoreJob(city, [v |-> HB, null |-> FALSE], subs, ags,
                                         <<>>, FALSE),
                        seeds |-> <<first, second>>, results |-> <<>>]

\* the next of the two calls is made, by the worker whose turn it is
ScoreAgain(fn) ==
    /\ response.op = "repeat" /\ response.fn = fn
    /\ Len(response.results) < 2
    /\ LET seed == response.seeds[Len(response.results) + 1]
           result == IF fn = "school"
                     THEN calculate_match_score(response.teacher, response.school)
                     ELSE calculate_job_match_score(response.teacher, response.job)
       IN  response' = [response EXCEPT !.results = Append(@, ResultOn(result, seed))]
    /\ UNCHANGED <<teachers, schools, jobs, school_jobs, matches, nextId, applications, proc, faults,
                   last, requests>>

NextRepeat ==
    \/ ScoreAgain("school")
    \/ ScoreAgain("job")

SpecRepeat == InitRepeat /\ [][NextRepeat]_vars


(***************************************************************************)
(* Properties.                                                             *)
(***************************************************************************)
Recompute(r) == r.kind \in {"teacher", "school"}

\* the invocation ran through to its normal end
Completed(r) == r.pc = "done" /\ r.exc = "none"

\* ... and no other write reached the store from its first call until now
CompletedAlone(r) == Completed(r) /\ r.quiet

ScoreNow(t, s) == calculate_match_score(teachers[t], schools[s])

\* the row of the pair is what a recompute with threshold m makes of the
\* stored teacher and school: there iff the score clears m, with that score
PairSettled(t, s, m) ==
    LET sc == ScoreNow(t, s)
        rows == RowsOf(matches, t, s)
    IN  /\ sc.ok
        /\ (rows # {}) <=> (sc.score >= m)
        /\ Cardinality(rows) <= 1
        /\ \A r \in rows : r.match_score = sc.score /\ r.match_reasons = sc.reasons

AtMostOnePerPair ==
    \A t \in TeacherIds, s \in SchoolIds : Cardinality(RowsOf(matches, t, s)) <= 1

\* an insert or upsert of the recompute hit the unique key of its pair
KeyConflictAbort(r) ==
    Recompute(r) /\ r.pc = "done" /\ r.exc = "APIError" /\ r.failed # <<>>

\* C1: under any interleaving of run_matching_for_teacher and
\* run_matching_for_school the table holds at most one row per (teacher,
\* school) pair and neither recompute is aborted by a key conflict
C1_OneRowAndNoConflictAbort ==
    /\ AtMostOnePerPair
    /\ \A p \in DOMAIN proc : ~KeyConflictAbort(proc[p])

SameFlags(a, b) ==
    /\ a.is_submitted = b.is_submitted
    /\ a.role_name = b.role_name
    /\ ("role_name" \in a.nulls) <=> ("role_name" \in b.nulls)

\* C3: a recompute never changes is_submitted or role_name of a row that
\* exists before and after it
C3_FlagsPreserved ==
    \A p \in DOMAIN proc :
        (Recompute(proc[p]) /\ CompletedAlone(proc[p]))
        => \A t \in TeacherIds, s \in SchoolIds :
              \A before \in RowsOf(proc[p].pre, t, s), after \in RowsOf(matches, t, s) :
                  SameFlags(before, after)


JobKindRows(tbl, teacher_id) ==
    {r \in tbl : r.teacher_id = teacher_id /\ "job_id" \notin r.nulls}

\* C4: run_matching_for_teacher replaces only the teacher's rows of the
\* school kind: the teacher's rows with job_id set and the rows of the other
\* teachers are left unchanged
C4_OnlySchoolKindReplaced ==
    \A p \in DOMAIN proc :
        (proc[p].kind = "teacher" /\ CompletedAlone(proc[p]))
        => /\ JobKindRows(matches, proc[p].id) = JobKindRows(proc[p].pre, proc[p].id)
           /\ {r \in matches : r.teacher_id # proc[p].id}
                 = {r \in proc[p].pre : r.teacher_id # proc[p].id}

\* C5: after run_matching_for_teacher(c, m) has completed with no concurrent
\* change, the rows of c are exactly the pairs (c, s) with s an active school
\* and score(c, s) >= m, each with the score of the stored c and s; c has no
\* row for an inactive school or for a pair below m
C5_TeacherRunExact ==
    \A p \in DOMAIN proc :
        (proc[p].kind = "teacher" /\ CompletedAlone(proc[p]))
        => \A s \in DOMAIN schools :
              IF schools[s].is_active
              THEN PairSettled(proc[p].id, s, proc[p].min_score)
              ELSE RowsOf(matches, proc[p].id, s) = {}

\* a teacher run has dropped the row of one school and inserted that of another
C5_Witness ==
    \E p \in DOMAIN proc :
        /\ proc[p].kind = "teacher" /\ CompletedAlone(proc[p])
        /\ \E s1, s2 \in DOMAIN schools :
              /\ RowsOf(proc[p].pre, proc[p].id, s1) # {}
              /\ RowsOf(matches, proc[p].id, s1) = {}
              /\ RowsOf(proc[p].pre, proc[p].id, s2) = {}
              /\ RowsOf(matches, proc[p].id, s2) # {}

\* a row without its id: (candidate, opportunity, score, reasons, submitted,
\* role_name)
Tuple(r) ==
    [teacher_id |-> r.teacher_id, school_id |-> r.school_id, job_id |-> r.job_id,
     match_score |-> r.match_score, match_reasons |-> r.match_reasons,
     is_submitted |-> r.is_submitted, role_name |-> r.role_name, nulls |-> r.nulls]

Tuples(tbl) == {Tuple(r) : r \in tbl}

C7_Converges ==
    (\A p \in DOMAIN proc : proc[p].pc \in {"idle", "done"})
    => \A pt, ps \in DOMAIN proc :
          (/\ proc[pt].kind = "teacher" /\ Completed(proc[pt])
           /\ proc[ps].kind = "school" /\ Completed(proc[ps]) /\ proc[ps].found)
          => PairSettled(proc[pt].id, proc[ps].id, DEFAULT_MIN_SCORE)

\* the pairs a recompute goes over
BatchOf(r) ==
    IF r.kind = "teacher" THEN {<<r.id, s>> : s \in ActiveSchoolIds}
    ELSE {<<t, r.id>> : t \in DOMAIN teachers}

\* C8: when one store write of a recompute fails, the failure is skipped: the
\* row of that pair stays as it was and every other pair of the batch ends
\* in its threshold-gated state
C8_WriteFailureSkipped ==
    \A p \in DOMAIN proc :
        (/\ Recompute(proc[p]) /\ proc[p].pc = "done" /\ proc[p].quiet
         /\ proc[p].failed # <<>>)
        => \A pair \in BatchOf(proc[p]) :
              IF pair = proc[p].failed \/ proc[p].failed[2] = 0
              THEN RowsOf(matches, pair[1], pair[2]) = RowsOf(proc[p].pre, pair[1], pair[2])
              ELSE PairSettled(pair[1], pair[2], proc[p].min_score)

NotFound(r) ==
    /\ r.pc = "done" /\ r.kind \in {"teacher", "school", "job"}
    /\ r.id = MissingId

C10_BackgroundFailureContained ==
    [][\A p \in DOMAIN proc :
          /\ (/\ proc[p].pc # "done" /\ proc'[p].pc = "done"
              /\ proc'[p].caller = "background" /\ proc'[p].exc # "none")
             => /\ proc'[p].outcome = "logged_error"
                /\ teachers' = teachers /\ schools' = schools
                /\ \A q \in DOMAIN proc : proc'[q].pc = "start" => proc[q].pc = "start"
          /\ (proc[p].pc # "start" /\ proc'[p].pc = "start")
             => requests' = requests + 1]_vars

\* a scheduled recompute has failed
C10_Witness ==
    \E p \in DOMAIN proc :
        proc[p].pc = "done" /\ proc[p].caller = "background" /\ proc[p].exc # "none"

\* the invocations that a step has scheduled
NewlyScheduled == {p \in DOMAIN proc : proc[p].pc # "start" /\ proc'[p].pc = "start"}

\* C11: whenever a teacher profile is created, a run_matching_for_teacher
\* for the new teacher is scheduled
C11_CreationSchedulesRecompute ==
    [][\A t \in (DOMAIN teachers') \ DOMAIN teachers :
          \E p \in NewlyScheduled :
              proc'[p].kind = "teacher" /\ proc'[p].id = t]_vars

\* C12: a profile edit schedules a run_matching_for_teacher for the edited
\* teacher iff it sets one of subject_specialty, preferred_location,
\* preferred_age_group, years_experience; an edit that sets none of them
\* schedules nothing; the edit itself leaves the match table unchanged
C12_EditSchedulesIffPreference ==
    [][\A t \in DOMAIN teachers, upd \in TeacherUpdates :
          update_teacher_profile(t, upd)
          => /\ matches' = matches
             /\ IF upd.fields \cap {"subject_specialty", "preferred_location",
                                    "preferred_age_group", "years_experience"} # {}
                THEN /\ Cardinality(NewlyScheduled) = 1
                     /\ \A p \in NewlyScheduled :
                           /\ proc'[p].kind = "teacher" /\ proc'[p].id = t
                           /\ proc'[p].caller = "background"
                ELSE NewlyScheduled = {}]_vars

\* an edit of the phone number has scheduled nothing and a later edit of the
\* preferred location has scheduled a recompute
C12_Witness ==
    /\ requests = 2
    /\ \E t \in DOMAIN teachers : "phone" \notin teachers[t].nulls
    /\ \E p \in DOMAIN proc :
          proc[p].pc = "start" /\ proc[p].kind = "teacher" /\ proc[p].caller = "background"

\* C13: creating a school schedules one run_matching_for_school for the new
\* school; editing a school schedules one for that school and no other
\* exactly when the edit sets one of subjects_needed, age_groups, city,
\* province, experience_required, chinese_required
C13_SchoolEventsSchedule ==
    [][/\ \A s \in (DOMAIN schools') \ DOMAIN schools :
             /\ Cardinality(NewlyScheduled) = 1
             /\ \A p \in NewlyScheduled : proc'[p].kind = "school" /\ proc'[p].id = s
       /\ \A s \in DOMAIN schools, upd \in SchoolUpdates :
             update_school(s, upd)
             => IF upd.fields \cap {"subjects_needed", "age_groups", "city", "province",
                                    "experience_required", "chinese_required"} # {}
                THEN /\ Cardinality(NewlyScheduled) = 1
                     /\ \A p \in NewlyScheduled :
                           proc'[p].kind = "school" /\ proc'[p].id = s
                ELSE NewlyScheduled = {}]_vars

\* the recompute scheduled for a school just created has run, and an edit
\* of is_active has scheduled nothing
C13_Witness ==
    /\ requests = 2
    /\ \E s \in DOMAIN schools : s \notin SchoolIds
    /\ \E p \in DOMAIN proc :
          /\ proc[p].pc = "done" /\ proc[p].kind = "school" /\ proc[p].id \notin SchoolIds
    /\ \E s \in SchoolIds : ~schools[s].is_active

\* C17: POST /matching/run answers only once run_matching_for_teacher has
\* run to its end, and its matches_count is the number of rows the teacher
\* holds as a result of the run
C17_AdminCountIsRowCount ==
    \A p \in DOMAIN proc :
        (proc[p].kind = "teacher" /\ proc[p].caller = "admin" /\ proc[p].outcome = "200")
        => /\ proc[p].pc = "done" /\ proc[p].exc = "none"
           /\ proc[p].quiet
                => proc[p].count
                     = Cardinality({r \in matches : r.teacher_id = proc[p].id})

\* the administrator's run has returned a count of two rows
C17_Witness ==
    \E p \in DOMAIN proc :
        /\ proc[p].kind = "teacher" /\ proc[p].caller = "admin"
        /\ proc[p].outcome = "200" /\ proc[p].quiet /\ proc[p].count = 2

\* the stored row an entry was made from
MatchById(id) == CHOOSE r \in matches : r.id = id

\* two stored school matches whose schools differ in name and id only
DifferOnlyInIdentity(r1, r2) ==
    /\ HasSchoolData(r1) /\ HasSchoolData(r2)
    /\ [schools[r1.school_id] EXCEPT !.name = <<>>] = [schools[r2.school_id] EXCEPT !.name = <<>>]
    /\ [r1 EXCEPT !.id = 0, !.school_id = 0] = [r2 EXCEPT !.id = 0, !.school_id = 0]
    /\ DisplayRole(r1) = DisplayRole(r2)

\* C14: the entries a view returns to a teacher for two schools that differ
\* in name and id only differ in nothing but the id of the match record
C14_NoInstitutionIdentity ==
    response.op \in {"get_teacher_all_matches", "get_teacher_matches",
                     "get_my_matches", "get_preview_matches"}
        => \A i, j \in 1..Len(response.entries) :
              LET e1 == response.entries[i]
                  e2 == response.entries[j]
              IN  DifferOnlyInIdentity(MatchById(e1.id), MatchById(e2.id))
                      => [e1 EXCEPT !.id = 0] = [e2 EXCEPT !.id = 0]

\* the rows the teacher of the response holds
HeldRows == {r \in matches : r.teacher_id = response.teacher_id}

C16_AggregatedViewComplete ==
    (\/ response.op \in {"get_teacher_all_matches", "get_my_matches"}
     \/ response.op = "get_preview_matches" /\ response.has_paid)
        => LET es == response.entries
               ids == {es[i].id : i \in 1..Len(es)}
           IN  /\ Len(es) = IF Cardinality(HeldRows) < response.limit
                            THEN Cardinality(HeldRows) ELSE response.limit
               /\ Cardinality(ids) = Len(es)
               /\ ids \subseteq {r.id : r \in HeldRows}
               /\ \A i \in 1..Len(es) :
                     /\ es[i].match_score = MatchById(es[i].id).match_score
                     /\ es[i].type = IF IsSchoolRow(MatchById(es[i].id)) THEN "school" ELSE "job"
               /\ \A i \in 1..Len(es) : \A j \in 1..Len(es) :
                     i < j => es[i].match_score >= es[j].match_score
               /\ \A r \in HeldRows : \A i \in 1..Len(es) :
                     r.id \notin ids => r.match_score <= es[i].match_score

C16_Witness ==
    /\ response.op = "get_teacher_all_matches"
    /\ Cardinality(HeldRows) > response.limit
    /\ Len(response.entries) = response.limit
    /\ \E i, j \in 1..Len(response.entries) :
          response.entries[i].type = "school" /\ response.entries[j].type = "job"

\* a sub-score within [0,100]
InRange(sub) == 0 <= sub.num /\ sub.num <= 100 * sub.den

\* the five sub-scores of a call, from its arguments; the location sub-score
\* is left out when its computation raises
SubScoresInRange(teacher, city, province, province_null, subjects, age_groups, required, chinese_required) ==
    LET location == calculate_location_score(parse_comma_separated(teacher, "preferred_location"),
                        city, province, province_null)
    IN  /\ location.ok => InRange(location.v)
        /\ InRange(calculate_subject_score(parse_comma_separated(teacher, "subject_specialty"), subjects))
        /\ InRange(calculate_age_group_score(parse_comma_separated(teacher, "preferred_age_group"), age_groups))
        /\ InRange(Pts(calculate_experience_score(parse_years_experience(teacher), required, required = <<>>)))
        /\ InRange(Pts(calculate_chinese_score(teacher.has_chinese, chinese_required)))

\* C18: the five weights sum to 1 (100 hundredths), every sub-score of a call
\* of calculate_match_score or calculate_job_match_score is within [0,100],
\* and so is the composite score the call returns
C18_ScoresWithinBounds ==
    /\ WEIGHT_LOCATION + WEIGHT_SUBJECT + WEIGHT_AGE_GROUP + WEIGHT_EXPERIENCE + WEIGHT_CHINESE = 100
    /\ response.op = "calculate_match_score"
          => /\ SubScoresInRange(response.teacher, response.school.city, response.school.province,
                    "province" \in response.school.nulls, response.school.subjects_needed,
                    response.school.age_groups, response.school.experience_required,
                    response.school.chinese_required)
             /\ response.result.ok
                    => 0 <= response.result.score /\ response.result.score <= 10000
    /\ response.op = "calculate_job_match_score"
          => /\ SubScoresInRange(response.teacher, response.job.city, response.job.province,
                    FALSE, response.job.subjects, response.job.age_groups,
                    response.job.experience, response.job.chinese_required)
             /\ response.result.ok
                    => 0 <= response.result.score /\ response.result.score <= 10000

\* a teacher far short of the required years, whose experience sub-score is
\* held at the floor, with the composite score computed
C18_Witness ==
    /\ response.op = "calculate_match_score"
    /\ response.result.ok
    /\ response.school.experience_required = RangeText(MaxRequired, MaxRequired + 2)
    /\ parse_years_experience(response.teacher) = 0
    /\ response.result.score > 0

\* the experience sub-score the table gives y years against [lo, hi]
TableScore(y, lo, hi) ==
    IF lo <= y /\ y <= hi THEN 100
    ELSE IF y = lo - 1 \/ y = hi + 1 THEN 80
    ELSE IF y > hi THEN (IF 70 - 5 * (y - hi) > 30 THEN 70 - 5 * (y - hi) ELSE 30)
    ELSE (IF 50 - 10 * (lo - y) > 0 THEN 50 - 10 * (lo - y) ELSE 0)

\* C19: against a requirement "a-b years" with a <= b a teacher of y years
\* gets 100 within the range, 80 one year outside it, max(70 - 5e, 30) when
\* over by e >= 2 and max(50 - 10s, 0) when under by s >= 2; with no
\* requirement 100
C19_ExperienceTable ==
    (response.op = "calculate_experience_score" /\ response.form = "range")
        => response.score =
              IF response.required_empty THEN 100
              ELSE TableScore(response.teacher_years, response.min_years, response.max_years)

\* "3-5 years" and 6 years: one year over, 80
C19_Witness ==
    /\ response.op = "calculate_experience_score" /\ response.form = "range"
    /\ ~response.required_empty
    /\ response.min_years = 3 /\ response.max_years = 5
    /\ response.teacher_years = 6
    /\ response.score = 80

\* C20: a requirement "N+ years" is the range from N with no upper bound: y
\* years score 100 when y >= N and as under-qualified against N when y < N
C20_OpenRangeParsed ==
    (response.op = "calculate_experience_score" /\ response.form = "open")
        => response.score = TableScore(response.teacher_years, response.min_years, NO_UPPER_BOUND)

\* the location tokens of a preferred_location text: split at the commas,
\* trimmed, the empty ones left out
LocationTokens(text) == {Strip(t) : t \in Range(Split(text, ","))} \ {<<>>}

\* the location sub-score of the table, for a province text that is empty
\* when the column is empty or absent
TableLocation(tokens, city, province) ==
    IF tokens = {} THEN 50
    ELSE IF \E t \in tokens : Lower(t) = Lower(city) THEN 100
    ELSE IF \E t \in tokens : \/ IsSubstr(Lower(t), Lower(province))
                              \/ IsSubstr(Lower(province), Lower(t)) THEN 70
    ELSE 0

\* C21: the location sub-score is 100 for a location equal to the city, else
\* 70 for a location that is part of the province or has it as a part, 50
\* with no preferred location and 0 otherwise, whatever the province column
\* of the opportunity holds, an empty or absent one included
C21_LocationTable ==
    response.op = "calculate_location_score"
        => /\ response.result.ok
           /\ response.result.v = Pts(TableLocation(LocationTokens(response.preferred_location),
                                                    response.city, response.province.v))

\* the trimmed, case-normalized tokens of a delimited text and of a list
TextTokens(text) == {Lower(Strip(t)) : t \in Range(Split(text, ","))} \ {<<>>}

ListTokens(list) == {Lower(Strip(t)) : t \in Range(list)} \ {<<>>}

\* 100 * |candidate /\ required| / |required| capped at 100, 50 when a side
\* is empty
TableOverlap(candidate, required) ==
    IF candidate = {} \/ required = {} THEN Pts(50)
    ELSE IF candidate \cap required = {} THEN Pts(0)
    ELSE IF Cardinality(candidate \cap required) >= Cardinality(required) THEN Pts(100)
    ELSE [num |-> 100 * Cardinality(candidate \cap required), den |-> Cardinality(required)]

\* C22: the subject sub-score, and the age-group sub-score, of a teacher's
\* delimited text against an opportunity's list is the share of the required
\* tokens the teacher has, both sides taken as sets of trimmed tokens in one
\* case; 50 when a side is empty
C22_OverlapOfNormalizedTokens ==
    response.op \in {"calculate_subject_score", "calculate_age_group_score"}
        => LET table == TableOverlap(TextTokens(response.text), ListTokens(response.list))
           IN  response.score.num * table.den = table.num * response.score.den

\* the reasons of a result name the kind
HasReason(result, kind) == \E i \in 1..Len(result.reasons) : result.reasons[i].kind = kind

\* the rule of the reasons, from the sub-scores of the arguments
ReasonRule(result, teacher, city, province, province_null, subjects, age_groups, required, chinese_required) ==
    LET location == calculate_location_score(parse_comma_separated(teacher, "preferred_location"),
                        city, province, province_null).v
        teacher_subjects == parse_comma_separated(teacher, "subject_specialty")
        teacher_age_groups == parse_comma_separated(teacher, "preferred_age_group")
        subject == calculate_subject_score(teacher_subjects, subjects)
        age_group == calculate_age_group_score(teacher_age_groups, age_groups)
        experience == calculate_experience_score(parse_years_experience(teacher), required,
                          required = <<>>)
        chinese == calculate_chinese_score(teacher.has_chinese, chinese_required)
    IN  /\ HasReason(result, "Location match") <=> location.num >= 70 * location.den
        /\ HasReason(result, "Subject match")
              <=> (subject.num >= 70 * subject.den /\ teacher_subjects # <<>> /\ subjects # <<>>)
        /\ HasReason(result, "Age group match")
              <=> (age_group.num >= 70 * age_group.den /\ teacher_age_groups # <<>>
                   /\ age_groups # <<>>)
        /\ HasReason(result, "Experience level") <=> experience >= 80
        /\ HasReason(result, "Chinese language proficiency")
              <=> (chinese_required /\ chinese = 100)

\* C23: with the score of a teacher and a school, an external job or a
\* school's posting comes a location reason iff the location sub-score is at
\* least 70, a subject (age-group) reason iff that sub-score is at least 70
\* and both sides are non-empty, an experience reason iff the experience
\* sub-score is at least 80, and a language reason iff the language is
\* required and its sub-score is 100
C23_ReasonsFollowSubScores ==
    /\ (response.op = "calculate_match_score" /\ response.result.ok)
          => ReasonRule(response.result, response.teacher, response.school.city,
                 response.school.province, "province" \in response.school.nulls,
                 response.school.subjects_needed, response.school.age_groups,
                 response.school.experience_required, response.school.chinese_required)
    /\ response.op = "calculate_job_match_score"
          => ReasonRule(response.result, response.teacher, response.job.city,
                 response.job.province, FALSE, response.job.subjects, response.job.age_groups,
                 response.job.experience, response.job.chinese_required)
    /\ response.op = "calculate_school_job_match_score"
          => ReasonRule(response.result, response.teacher, response.job.city,
                 response.job.province, FALSE, response.job.subjects, response.job.age_groups,
                 response.job.experience_required, response.job.chinese_required)

\* a posting scored with a location sub-score of exactly 70, by its province
C23_Witness ==
    /\ response.op = "calculate_school_job_match_score"
    /\ response.teacher.preferred_location = HB
    /\ response.job.province = HB
    /\ HasReason(response.result, "Location match")
    /\ ~HasReason(response.result, "Subject match")

\* C24: an experience requirement that cannot be parsed gives the sub-score
\* 50 and no exception: a recompute over a school that holds one ends
\* normally and has settled every pair of its batch
C24_MalformedIsNeutral ==
    /\ (response.op = "calculate_experience_score" /\ response.form = "malformed")
          => response.score = 50
    /\ \A p \in DOMAIN proc :
          /\ (Recompute(proc[p]) /\ proc[p].pc = "done") => proc[p].exc = "none"
          /\ (proc[p].kind = "teacher" /\ CompletedAlone(proc[p]))
                => \A s \in ActiveSchoolIds : PairSettled(proc[p].id, s, proc[p].min_score)
          /\ (proc[p].kind = "school" /\ CompletedAlone(proc[p]) /\ proc[p].found)
                => \A t \in DOMAIN teachers : PairSettled(t, proc[p].id, proc[p].min_score)

\* after its city was edited, the run for the school with the malformed
\* requirement has written the row of the teacher who now qualifies and
\* deleted that of the teacher who no longer does
C24_Witness ==
    \E p \in DOMAIN proc :
        /\ proc[p].kind = "school" /\ CompletedAlone(proc[p]) /\ proc[p].id = 2
        /\ schools[2].experience_required \in MalformedTexts
        /\ proc[p].count = 1
        /\ RowsOf(matches, 1, 2) # {}
        /\ RowsOf(matches, 2, 2) = {}

\* C25: after run_matching_for_teacher_jobs(t, m) has completed with no
\* concurrent change, every row of t for an active external job holds the
\* score of the stored teacher and job, and that score is at least m
C25_TeacherJobsRunThreshold ==
    \A p \in DOMAIN proc :
        (proc[p].kind = "teacher_jobs" /\ CompletedAlone(proc[p]))
        => \A r \in JobKindRows(matches, proc[p].id) :
              (r.job_id \in ActiveJobIds /\ jobs[r.job_id].source # "manual")
              => /\ r.match_score = calculate_job_match_score(teachers[proc[p].id],
                                                              jobs[r.job_id]).score
                 /\ r.match_score >= proc[p].min_score

\* C28: whatever the interleaving of run_matching_for_job and
\* run_matching_for_teacher_jobs, the table holds at most one row for a
\* teacher and an external job
C28_OneRowPerJobPair ==
    \A t \in DOMAIN teachers, j \in DOMAIN jobs :
        Cardinality(JobRowsOf(matches, t, j)) <= 1

\* the opportunity of an opportunity-centric invocation is stored and inactive
OfInactive(r) ==
    \/ r.kind = "school" /\ r.id \in DOMAIN schools /\ ~schools[r.id].is_active
    \/ r.kind = "job" /\ r.id \in DOMAIN jobs /\ ~jobs[r.id].is_active

C30_WriteBeforeSchedule ==
    \A p \in DOMAIN proc :
        proc[p].edit # <<>> =>
            LET r == proc[p]
                e == r.edit[1]
            IN  /\ r.caller = "background" => e.written
                /\ ~e.written => r.pc \in {"edit", "done"} /\ r.caller = "none"
                /\ (r.caller = "background" /\ r.row # <<>>) => r.row = e.stored

\* the recompute of an edit that changed its row has read the row as the
\* edit left it
C30_Witness ==
    \E p \in DOMAIN proc :
        /\ proc[p].edit # <<>>
        /\ proc[p].caller = "background"
        /\ proc[p].row # <<>>
        /\ proc[p].row = proc[p].edit[1].stored
        /\ proc[p].edit[1].old # <<>>
        /\ proc[p].edit[1].old # proc[p].edit[1].stored
        /\ ~proc[p].edit[1].newer

\* C27: after every step of create_school_job and update_school_job the
\* active postings of every account are no more than its max_active_jobs,
\* and a step that answers 403 leaves school_jobs as it was
C27_ActiveJobsWithinLimit ==
    [][/\ \A a \in AccountIds :
             get_school_active_job_count(school_jobs', a) <= get_school_max_jobs(a)
       /\ \A p \in DOMAIN proc :
             (proc'[p].outcome = "403" /\ proc[p].outcome # "403")
             => school_jobs' = school_jobs]_vars

\* C26: two calls of calculate_match_score, or of calculate_job_match_score,
\* with the same candidate and the same opportunity return the same score
\* and the same list of reasons
C26_SameResultOnRepeat ==
    (response.op = "repeat" /\ Len(response.results) = 2)
    => response.results[1] = response.results[2]

====
